---- MODULE Spec2Model ----
(***************************************************************************)
(* A model of SmartctlTextAtaParser (src/applib/smartctl_text_ata_parser   *)
(* .cpp): parse() and the section / subsection parsers it drives.          *)
(*                                                                         *)
(* Text is a sequence of lines (the '\n' separators are implicit, a blank  *)
(* line is the empty string).  Lines are drawn from a finite alphabet; the *)
(* result of matching one line against a regular expression of the source  *)
(* is tabulated per line (Re, LineName, LineValue, ...), the regular        *)
(* expression being named by its source text.                              *)
(***************************************************************************)
EXTENDS Integers, Sequences, FiniteSets, TLC

\* ------------------------------------------------------------------ bounds

\* Largest number of lines of the input text that follow the optional
\* version line.
MaxLines == 3

\* Largest number of lines of the body of the Read SMART Data section of an
\* input text that holds nothing but that section.
MaxDataLines == 4

\* Largest number of lines that follow the banner of the Read SMART Data
\* section in an input text of two sections.
MaxTwoSectionLines == 5

\* Largest number of lines that follow the version line in an input text
\* made for the rewrites of parse().
MaxFixLines == 4

\* Largest number of lines of the body of the Information section of an
\* input text that holds nothing but that section.
MaxInfoLines == 5

\* Largest number of lines that follow the first line of the capabilities
\* subsection an input text holds.
MaxCapabilityLines == 4

\* Largest number of lines that follow the header row of the attribute
\* table an input text holds.
MaxAttributeLines == 3

\* Largest number of lines that follow the banner of the data section in an
\* input text made of the lines of the logs.
MaxLogLines == 3

\* Largest number of header rows and table rows that follow the revision
\* line of an attributes subsection in an input text.
MaxFormatLines == 4
MaxLoopLines == 4
MaxLevelCalls == 5

\* ---------------------------------------------------------------- alphabet

VersionLineNew == "smartctl 7.2 2020-12-30 r5155 [x86_64-linux-5.10.0] (local build)"
VersionLineOld == "smartctl version 4.0 Copyright (C) 2002 Bruce Allen"

BannerInfo == "=== START OF INFORMATION SECTION ==="
BannerData == "=== START OF READ SMART DATA SECTION ==="
BannerEnable == "=== START OF ENABLE/DISABLE COMMANDS SECTION ==="
BannerSelftest == "=== START OF OFFLINE IMMEDIATE AND SELF-TEST SECTION ==="
BannerOther == "=== START OF SMART DATA SECTION ==="

ChecksumLine == "Warning! SMART Attribute Data Structure error: invalid SMART checksum."
ModelLine == "Device Model: ST3500630AS"
CapacityLine == "User Capacity: unknown"
HealthLine == "SMART overall-health self-assessment test result: PASSED"
ErrorLogLine == "SMART Error Log not supported"

\* The lines an input text is made of (besides the version line).
BodyLines ==
    { "", BannerInfo, BannerData, BannerEnable, BannerSelftest, BannerOther,
      ChecksumLine, ModelLine, CapacityLine, HealthLine, ErrorLogLine }

\* Lines the rewrites of parse() look for.
NoErrorLoggingLine == "Warning: device does not support Error Logging"
AtaErrorCountLine == "Warning: ATA error count 9 inconsistent with error log pointer 5"
TransientLine == "Read SCT Status failed: scsi error aborted command"

\* The lines of a text the rewrites of parse() work on.
FixLines ==
    { "", NoErrorLoggingLine, AtaErrorCountLine, TransientLine, ChecksumLine, ModelLine }

\* Further lines of an Information section.
UnknownInfoLine == "TRIM Command: Available"
WarningLine == "==> WARNING: A firmware update for this drive may be available,"
WarningMoreLine == "see the following Seagate web pages:"
NoiseLine == "Read SMART Data failed: Input/output error"

\* The lines the body of an Information section is made of.
InfoLines == { "", ModelLine, UnknownInfoLine, WarningLine, WarningMoreLine, NoiseLine }

\* Further lines of a Read SMART Data section.
HealthFailedLine == "SMART overall-health self-assessment test result: FAILED!"
ErrorBlockLine == "Error 1 [0] occurred at disk power-on lifetime: 1 hours (0 days + 1 hours)"
IndentedLine == "  After command completion occurred, registers were:"
DirectoryLine == "General Purpose Log Directory not supported"
IgnoredLine == "Read SMART Extended Comprehensive Error Log failed"

\* The lines the body of a Read SMART Data section is made of.
DataLines ==
    { "", HealthLine, HealthFailedLine, ErrorLogLine, ErrorBlockLine, IndentedLine,
      ModelLine, DirectoryLine, IgnoredLine }

\* The lines of a text in which an Information section follows the Read
\* SMART Data section.
TwoSectionLines == { "", HealthLine, ErrorLogLine, ModelLine, BannerInfo }

\* The first line of a capabilities subsection, and the lines of its blocks.
CapabilitiesHeader == "General SMART Values:"
SctCapabilitiesLine == "SCT capabilities: \t       (0x003d)\tSCT Status supported."
LoopLines == { BannerInfo, BannerData, ModelLine, HealthLine }

CapabilityLines ==
    { "", "Short self-test routine", "recommended polling time: \t ( 2) minutes.",
      "Total time to complete Offline", "data collection: \t\t(   45) seconds.",
      SctCapabilitiesLine, BannerInfo, ModelLine }

\* The first lines of an attributes subsection in the brief format, and the
\* lines of its table: three rows and a line of the flag legend.  The rows
\* that begin with a blank never open a text that is trimmed.
AttributesHead ==
    << "SMART Attributes Data Structure revision number: 16",
       "Vendor Specific SMART Attributes with Thresholds:",
       "ID# ATTRIBUTE_NAME          FLAGS    VALUE WORST THRESH FAIL RAW_VALUE" >>
Row194 == "194 Temperature_Celsius     -O----   222   222   000    -    27 (Min/Max 12/48)"
Row5 == "  5 Reallocated_Sector_Ct   PO--CK   100   100   ---    Past 0"
Row9 == "  9 Power_On_Hours          -O--CK   ---   300   099    NOW  1720"
AttributeLines == { "", Row194, Row5, Row9, "                            ||||||_ K auto-keep" }

\* The header rows of the two legacy formats, a row of each, and the lines
\* of an attributes subsection that holds header rows of several formats.
HeaderOld == "ID# ATTRIBUTE_NAME          FLAG     VALUE WORST THRESH TYPE      UPDATED  WHEN_FAILED RAW_VALUE"
HeaderNoUpdated == "ID# ATTRIBUTE_NAME          FLAG     VALUE WORST THRESH TYPE     WHEN_FAILED RAW_VALUE"
RowOld == "  1 Raw_Read_Error_Rate     0x000f   100   100   051    Pre-fail  Always       -       0"
RowNoUpdated == "  3 Spin_Up_Time            0x0007   100   100   025    Pre-fail -       6320"
FormatLines == { AttributesHead[3], HeaderOld, HeaderNoUpdated, Row194, RowOld, RowNoUpdated }

\* Lines of the subsections of the logs: device statistics, selective
\* self-test log, SCT error recovery control, SATA Phy counters, SCT
\* temperature, self-test log and error log.
DevstatNotSupportedGP == "Device Statistics (GP Log 0x04) not supported"
DevstatNotSupportedBoth == "Device Statistics (GP/SMART Log 0x04) not supported"
SelectiveNotSupported == "Device does not support Selective Self Tests/Logging"
SelectiveHeader == "SMART Selective self-test log data structure revision number 1"
ErcNotSupported == "SCT Error Recovery Control command not supported"
ErcHeader == "SCT Error Recovery Control:"
PhyNotSupported == "SATA Phy Event Counters (GP Log 0x11) not supported"
PhyHeader == "SATA Phy Event Counters (GP Log 0x11)"
SctNotSupported == "SCT Commands not supported"
SctHeader == "SCT Status Version:                  3"
SctTemperature == "Current Temperature:                    39 Celsius"
SelftestHeader == "SMART Self-test log structure revision number 1"
SelftestRow == "# 1  Extended offline    Completed without error       00%     43116         -"
SelftestFailed == "Read SMART Self-test Log failed"
ErrorLogVersionLine == "SMART Error Log Version: 1"
XerrorLogVersionLine == "SMART Extended Comprehensive Error Log Version: 1 (1 sectors)"
LogLines ==
    { "", DevstatNotSupportedGP, DevstatNotSupportedBoth, SelectiveNotSupported,
      SelectiveHeader, ErcNotSupported, ErcHeader, PhyNotSupported, PhyHeader,
      SctNotSupported, SctHeader, SctTemperature, SelftestHeader, SelftestRow,
      SelftestFailed, ErrorLogVersionLine, XerrorLogVersionLine }

\* The optional first line of an input text.
Prologues == { <<>>, <<VersionLineNew>>, <<VersionLineOld>> }

\* ------------------------------------------------------ regular expressions
\* The expressions of the source, named by their text.

ReChecksum == "\\nWarning! SMART (.+) Structure error: invalid SMART checksum\\.$"
ReSamsung == "\\n.*May need -F samsung or -F samsung2 enabled; see manual for details\\.$"
ReAtaErrorCount == "^(Warning: ATA error count.*\\n)\\n"
ReNoErrorLogging == "^(Warning: device does not support Error Logging)$"
ReNoSelfTestLogging == "^(Warning: device does not support Self Test Logging)$"
ReNoSelective == "^(Device does not support Selective Self Tests\\/Logging)$"
ReNoSct == "^(Warning: device does not support SCT Commands)$"
ReTransient ==
    { "^(ATA_READ_LOG_EXT \\([^)]+\\) failed: .*)$",
      "^((?:Error )?SMART WRITE LOG does not return COUNT and LBA_LOW register)$",
      "^(Read SCT Status failed: .*)$",
      "^(Unknown SCT Status format version .*)$",
      "^(Read SCT Data Table failed: .*)$",
      "^(Write SCT Data Table failed: .*)$",
      "^(Unexpected SCT status .*\\))$" }

ReSectionInfo == "START OF INFORMATION SECTION"
ReSectionData == "START OF READ SMART DATA SECTION"
ReSectionEnable == "START OF ENABLE/DISABLE COMMANDS SECTION"
ReSectionSelftest == "START OF OFFLINE IMMEDIATE AND SELF-TEST SECTION"

ReInfoLine == "^([^:]+):[ \\t]+(.*)$"
ReInfoWarning == "^==> WARNING: "
ReInfoNoise ==
    { "mandatory SMART command failed",
      "^Unexpected SCT status",
      "^Write SCT \\(Get\\) XXX Error Recovery Control Command failed",
      "^Write SCT \\(Get\\) Feature Control Command failed",
      "^Read SCT Status failed",
      "^Read SMART Data failed",
      "^Unknown SCT Status format version",
      "^Read SMART Thresholds failed",
      "Enabled status cached by OS, trying SMART RETURN STATUS cmd",
      "^>> Terminate command early due to bad response to IEC mode page",
      "^scsiModePageOffset: .+" }

ReHealthLine == "^([^:\\n]+):[ \\t]*(.*)$"
ReHealthName == "SMART overall-health self-assessment"
ReSelftestUnsupported == "^(Warning: device does not support Self Test Logging)|(SMART Self-test Log not supported)$"
ReSelftestVersions ==
    << "(SMART Self-test log structure[^\\n0-9]*)([^ \\n]+)[ \\t]*$",
       "(SMART Extended Self-test Log Version): ([0-9]+).*$",
       "(SMART Self-test log, version number[^\\n0-9]*)([^ \\n]+)[ \\t]*$" >>
ReSelftestEntry == "^(#[ \\t]*([0-9]+)[ \\t]+(\\S+(?: \\S+)*)  [ \\t]*(\\S.*) [ \\t]*([0-9]+%)  [ \\t]*([0-9]+)[ \\t]*((?:  [ \\t]*\\S.*)?))$"
ReErrorLogVersion == "^(SMART (Extended Comprehensive )?Error Log Version): ([0-9]+).*?$"
ReErrorLogUnsupported == "^(Warning: device does not support Error Logging)|(SMART Error Log not supported)$"
ReErrorCount == "^(?:ATA|Device) Error Count:[ \\t]*([0-9]+)"
ReNoErrors == "^No Errors Logged$"
ReErrorBlock == "^((Error[ \\t]*([0-9]+))[ \\t]*(?:\\[[0-9]+\\][ \\t])?occurred at disk power-on lifetime:[ \\t]*([0-9]+) hours"

\* The line without the blanks it begins with.
TrimLeft(line) ==
    CASE line = IndentedLine -> "After command completion occurred, registers were:"
      [] OTHER -> line

\* The expressions a single line matches (a partial match of the line).
Re(line) ==
    CASE line = BannerInfo -> { ReSectionInfo }
      [] line = BannerData -> { ReSectionData }
      [] line = BannerEnable -> { ReSectionEnable }
      [] line = BannerSelftest -> { ReSectionSelftest }
      [] line = ChecksumLine -> { ReChecksum, ReInfoLine, ReHealthLine, ":" }
      [] line = ModelLine -> { ReInfoLine, ReHealthLine, ":" }
      [] line = CapacityLine -> { ReInfoLine, ReHealthLine, ":" }
      [] line = HealthLine ->
            { ReInfoLine, ReHealthLine, ReHealthName, ":",
              "^SMART overall-health self-assessment" }
      [] line = ErrorLogLine ->
            { ReErrorLogUnsupported, "^SMART Error Log not supported" }
      [] line = NoErrorLoggingLine ->
            { ReNoErrorLogging, ReErrorLogUnsupported, ReInfoLine, ReHealthLine, ":",
              "^Warning: device does not support Error Logging" }
      [] line = AtaErrorCountLine -> { ReAtaErrorCount, ReInfoLine, ReHealthLine, ":" }
      [] line = TransientLine ->
            { "^(Read SCT Status failed: .*)$", "^Read SCT Status failed",
              ReInfoLine, ReHealthLine, ":" }
      [] line = CapabilitiesHeader ->
            { "^General SMART Values", "General SMART Values", ReHealthLine, ":" }
      [] line \in { "recommended polling time: \t ( 2) minutes.",
                    "data collection: \t\t(   45) seconds." } ->
            { ReInfoLine, ReHealthLine, ":" }
      [] line = SctCapabilitiesLine -> { ReInfoLine, ReHealthLine, ":" }
      [] line = AttributesHead[1] ->
            { "^SMART Attributes Data Structure", "Data Structure revision number",
              ReInfoLine, ReHealthLine, ":" }
      [] line = AttributesHead[2] -> { "SMART Attributes with Thresholds", ReHealthLine, ":" }
      [] line = AttributesHead[3] -> { "ATTRIBUTE_NAME" }
      [] line \in { Row5, Row9, RowOld, RowNoUpdated } -> { "^  ", "^[ \\t]" }
      [] line = HeaderOld -> { "ATTRIBUTE_NAME", "WHEN_FAILED", "UPDATED" }
      [] line = HeaderNoUpdated -> { "ATTRIBUTE_NAME", "WHEN_FAILED" }
      [] line = "                            ||||||_ K auto-keep" ->
            { "^[\\t ]+\\|", "^  ", "^[ \\t]" }
      [] line = UnknownInfoLine -> { ReInfoLine, ReHealthLine, ":" }
      [] line = WarningLine -> { ReInfoWarning, ReInfoLine, ReHealthLine, ":" }
      [] line = WarningMoreLine -> { ReHealthLine, ":" }
      [] line = NoiseLine -> { "^Read SMART Data failed", ReInfoLine, ReHealthLine, ":" }
      [] line = HealthFailedLine ->
            { ReInfoLine, ReHealthLine, ReHealthName, ":",
              "^SMART overall-health self-assessment" }
      [] line = ErrorBlockLine ->
            { ReInfoLine, ReHealthLine, ReErrorBlock, "^Error [0-9]+", ":" }
      [] line = IndentedLine -> { ReHealthLine, "^  ", "^[ \\t]", ":" }
      [] line = TrimLeft(IndentedLine) -> { ReHealthLine, ":" }
      [] line = DirectoryLine ->
            { "^General Purpose Log Directory not supported",
              "General Purpose Log Directory not supported" }
      [] line = IgnoredLine ->
            { "^Read SMART Extended Comprehensive Error Log failed" }
      [] line = DevstatNotSupportedGP ->
            { "^Device Statistics \\([^)]+\\) not supported",
              "^Device Statistics \\((?:GP|SMART) Log 0x04\\)" }
      [] line = DevstatNotSupportedBoth ->
            { "^Device Statistics \\([^)]+\\) not supported",
              "Device Statistics \\(GP\\/SMART Log 0x04\\) not supported" }
      [] line = SelectiveNotSupported ->
            { ReNoSelective, "^Device does not support Selective Self Tests\\/Logging",
              "Device does not support Selective Self Tests\\/Logging" }
      [] line = SelectiveHeader -> { "^SMART Selective self-test log data structure" }
      [] line = ErcNotSupported ->
            { "^SCT Error Recovery Control", "^SCT Error Recovery Control command not supported",
              "SCT Error Recovery Control command not supported" }
      [] line = ErcHeader -> { "^SCT Error Recovery Control", ReHealthLine, ":" }
      [] line = PhyNotSupported ->
            { "^SATA Phy Event Counters",
              "^SATA Phy Event Counters \\(GP Log 0x11\\) not supported",
              "SATA Phy Event Counters \\(GP Log 0x11\\) not supported" }
      [] line = PhyHeader -> { "^SATA Phy Event Counters" }
      [] line = SctNotSupported ->
            { "^SCT Commands not supported",
              "(SCT Commands not supported)|(SCT Data Table command not supported)" }
      [] line = SctHeader -> { "^SCT Status Version", ReInfoLine, ReHealthLine, ":" }
      [] line = SctTemperature ->
            { "^(Current Temperature):[ \\t]+(.*) Celsius$", ReInfoLine, ReHealthLine, ":" }
      [] line = SelftestHeader -> { "^SMART Self-test log", ReSelftestVersions[1] }
      [] line = SelftestRow -> { ReSelftestEntry }
      [] line = SelftestFailed -> { "^Read SMART Self-test Log failed" }
      [] line = ErrorLogVersionLine ->
            { "^SMART Error Log Version", ReErrorLogVersion, ReInfoLine, ReHealthLine, ":" }
      [] line = XerrorLogVersionLine ->
            { "^SMART Extended Comprehensive Error Log Version", ReErrorLogVersion,
              ReInfoLine, ReHealthLine, ":" }
      [] OTHER -> {}

\* Capture 1 and capture 2 of ReInfoLine / ReHealthLine, trimmed.
LineName(line) ==
    CASE line = ChecksumLine -> "Warning! SMART Attribute Data Structure error"
      [] line = ModelLine -> "Device Model"
      [] line = CapacityLine -> "User Capacity"
      [] line = HealthLine -> "SMART overall-health self-assessment test result"
      [] line = HealthFailedLine -> "SMART overall-health self-assessment test result"
      [] line \in { NoErrorLoggingLine, AtaErrorCountLine } -> "Warning"
      [] line = TransientLine -> "Read SCT Status failed"
      [] line = UnknownInfoLine -> "TRIM Command"
      [] line = SctCapabilitiesLine -> "SCT capabilities"
      [] line = ErcHeader -> "SCT Error Recovery Control"
      [] line = SctHeader -> "SCT Status Version"
      [] line = SctTemperature -> "Current Temperature"
      [] line = ErrorLogVersionLine -> "SMART Error Log Version"
      [] line = XerrorLogVersionLine -> "SMART Extended Comprehensive Error Log Version"
      [] line = AttributesHead[1] -> "SMART Attributes Data Structure revision number"
      [] line = AttributesHead[2] -> "Vendor Specific SMART Attributes with Thresholds"
      [] line = CapabilitiesHeader -> "General SMART Values"
      [] line = "recommended polling time: \t ( 2) minutes." -> "recommended polling time"
      [] line = "data collection: \t\t(   45) seconds." -> "data collection"
      [] line = WarningLine -> "==> WARNING"
      [] line = WarningMoreLine -> "see the following Seagate web pages"
      [] line = NoiseLine -> "Read SMART Data failed"
      [] line = ErrorBlockLine -> "Error 1 [0] occurred at disk power-on lifetime"
      [] line \in { IndentedLine, TrimLeft(IndentedLine) } ->
            "After command completion occurred, registers were"
      [] OTHER -> ""

LineValue(line) ==
    CASE line = ChecksumLine -> "invalid SMART checksum."
      [] line = ModelLine -> "ST3500630AS"
      [] line = CapacityLine -> "unknown"
      [] line = HealthLine -> "PASSED"
      [] line = HealthFailedLine -> "FAILED!"
      [] line = NoErrorLoggingLine -> "device does not support Error Logging"
      [] line = AtaErrorCountLine -> "ATA error count 9 inconsistent with error log pointer 5"
      [] line = TransientLine -> "scsi error aborted command"
      [] line = UnknownInfoLine -> "Available"
      [] line = SctCapabilitiesLine -> "(0x003d)\tSCT Status supported."
      [] line = SctHeader -> "3"
      [] line = SctTemperature -> "39 Celsius"
      [] line = ErrorLogVersionLine -> "1"
      [] line = XerrorLogVersionLine -> "1 (1 sectors)"
      [] line = AttributesHead[1] -> "16"
      [] line = "recommended polling time: \t ( 2) minutes." -> "( 2) minutes."
      [] line = "data collection: \t\t(   45) seconds." -> "(   45) seconds."
      [] line = WarningLine -> "A firmware update for this drive may be available,"
      [] line = NoiseLine -> "Input/output error"
      [] line = ErrorBlockLine -> "1 hours (0 days + 1 hours)"
      [] OTHER -> ""

\* Capture 1 of ReChecksum, trimmed.
ChecksumStructure(line) ==
    CASE line = ChecksumLine -> "Attribute Data"
      [] OTHER -> ""

\* The text from the first "=== START" of a line to the end of the line,
\* trimmed; "" when the line holds no "=== START".
BannerOf(line) ==
    IF line \in { BannerInfo, BannerData, BannerEnable, BannerSelftest, BannerOther }
    THEN line ELSE ""

\* ------------------------------------------------------------------- text

Min(S) == CHOOSE x \in S : \A y \in S : x <= y
Max(S) == CHOOSE x \in S : \A y \in S : x >= y

\* hz::string_trim_copy of a text: the leading and trailing blank lines go,
\* and so do the blanks the first line left begins with (no line of the
\* alphabet ends with a blank).
string_trim_copy(t) ==
    LET idx == { i \in 1..Len(t) : t[i] # "" }
    IN  IF idx = {} THEN <<>>
        ELSE <<TrimLeft(t[Min(idx)])>> \o SubSeq(t, Min(idx) + 1, Max(idx))

\* app_regex_partial_match(re, text) for an expression that matches within
\* one line, with the multi-line flag.
Match(re, t) == \E i \in 1..Len(t) : re \in Re(t[i])

\* ------------------------------------------------------------- properties

\* StoragePropertySection
Sections ==
    { "Unknown", "Info", "OverallHealth", "Capabilities", "AtaAttributes",
      "DirectoryLog", "AtaErrorLog", "SelftestLog", "SelectiveSelftestLog",
      "TemperatureLog", "ErcLog", "Statistics", "PhyLog" }

\* The value variant of a property; "absent" is the unset variant.
NoData == [kind |-> "none"]
ValueAbsent == [type |-> "absent", text |-> <<>>, num |-> 0, flag |-> FALSE, data |-> NoData]
ValueString(t) == [type |-> "string", text |-> t, num |-> 0, flag |-> FALSE, data |-> NoData]
ValueInteger(n) == [type |-> "integer", text |-> <<>>, num |-> n, flag |-> FALSE, data |-> NoData]
ValueBool(b) == [type |-> "bool", text |-> <<>>, num |-> 0, flag |-> b, data |-> NoData]
\* std::chrono::seconds
ValueSeconds(n) == [type |-> "seconds", text |-> <<>>, num |-> n, flag |-> FALSE, data |-> NoData]
\* AtaStorageAttribute, AtaStorageSelftestEntry, AtaStorageErrorBlock,
\* AtaStorageStatistic, AtaStorageTextCapability
ValueStruct(type, d) == [type |-> type, text |-> <<>>, num |-> 0, flag |-> FALSE, data |-> d]

\* A default-constructed StorageProperty.
StorageProperty ==
    [ section |-> "Unknown", generic_name |-> "", displayable_name |-> "",
      reported_name |-> "", reported_value |-> <<>>, readable_value |-> "",
      value |-> ValueAbsent, show_in_ui |-> TRUE ]

\* StorageProperty::set_name(generic, displayable, reported)
set_name(p, gen, disp, rep) ==
    [p EXCEPT !.generic_name = gen, !.displayable_name = disp, !.reported_name = rep]

\* StorageProperty::empty(): the value variant is unset.
empty(p) == p.value.type = "absent"

\* Variant: the property is left without a value.
WithStringValueUnset(p) == p

\* p.value = p.reported_value
WithStringValue(p) == [p EXCEPT !.value = ValueString(p.reported_value)]

app_get_checksum_error_property(reported_section_name) ==
    LET disp_name ==
            CASE reported_section_name = "Attribute Data" -> "Error in Attribute Data structure"
              [] reported_section_name = "Attribute Thresholds" -> "Error in Attribute Thresholds structure"
              [] reported_section_name = "ATA Error Log" -> "Error in ATA Error Log structure"
              [] reported_section_name = "Self-Test Log" -> "Error in Self-Test Log structure"
              [] OTHER -> "Error in structure"
        p0 == StorageProperty
        p1 == CASE reported_section_name = "Attribute Data" ->
                     set_name([p0 EXCEPT !.section = "AtaAttributes"],
                              "_text_only/attribute_data_checksum_error", disp_name, "")
                [] reported_section_name = "Attribute Thresholds" ->
                     set_name([p0 EXCEPT !.section = "AtaAttributes"],
                              "_text_only/attribute_thresholds_checksum_error", disp_name, "")
                [] reported_section_name = "ATA Error Log" ->
                     set_name([p0 EXCEPT !.section = "AtaErrorLog"],
                              "_text_only/ata_error_log_checksum_error", disp_name, "")
                [] reported_section_name = "Self-Test Log" ->
                     set_name([p0 EXCEPT !.section = "SelftestLog"],
                              "_text_only/selftest_log_checksum_error", disp_name, "")
                [] OTHER -> p0
    IN  WithStringValue([p1 EXCEPT !.reported_value = <<"checksum error">>])

\* ------------------------------------------------------------- normalizer

\* The lines a "\n<line>$" expression matches: any line but the first.
NewlineMatches(re, t) == { i \in 2..Len(t) : re \in Re(t[i]) }

\* app_regex_replace(re, "", s) for a "\n<line>$" expression: the matching
\* lines go, together with the line break in front of them.
RemoveLines(re, t) ==
    LET f[i \in 0..Len(t)] ==
            IF i = 0 THEN <<>>
            ELSE IF i \in NewlineMatches(re, t) THEN f[i-1]
            ELSE Append(f[i-1], t[i])
    IN  f[Len(t)]

\* The checksum-error properties, one per match, in text order.
ChecksumProperties(t) ==
    LET f[i \in 0..Len(t)] ==
            IF i = 0 THEN <<>>
            ELSE IF i \in NewlineMatches(ReChecksum, t)
                 THEN Append(f[i-1], app_get_checksum_error_property(ChecksumStructure(t[i])))
            ELSE f[i-1]
    IN  f[Len(t)]

\* "Warning: ATA error count...\n\n" loses one line break; every match is
\* replaced by the text of the first one.
CollapseErrorCount(t) ==
    LET hit(i) == ReAtaErrorCount \in Re(t[i]) /\ i + 1 < Len(t) /\ t[i+1] = ""
        hits == { i \in 1..Len(t) : hit(i) }
        g[i \in 1..(Len(t) + 2)] ==
            IF i > Len(t) THEN <<>>
            ELSE IF hit(i) THEN <<t[Min(hits)]>> \o g[i+2]
            ELSE <<t[i]>> \o g[i+1]
    IN  IF hits = {} THEN t ELSE g[1]

\* A whole-line expression replaced by "\n" + line + "\n".
SurroundLines(re, t) ==
    LET f[i \in 0..Len(t)] ==
            IF i = 0 THEN <<>>
            ELSE IF re \in Re(t[i]) THEN f[i-1] \o <<"", t[i], "">>
            ELSE Append(f[i-1], t[i])
    IN  f[Len(t)]

\* Whole-line expressions replaced by "": the line break stays.
BlankLines(res, t) ==
    [i \in 1..Len(t) |-> IF Re(t[i]) \cap res # {} THEN "" ELSE t[i]]

\* The rewrites of parse() between the trim and the version extraction.
FixOutput(t) ==
    LET a == RemoveLines(ReChecksum, t)
        b == RemoveLines(ReSamsung, a)
        c == CollapseErrorCount(b)
        d1 == SurroundLines(ReNoErrorLogging, c)
        d2 == SurroundLines(ReNoSelfTestLogging, d1)
        d3 == SurroundLines(ReNoSelective, d2)
        d4 == SurroundLines(ReNoSct, d3)
    IN  BlankLines(ReTransient, d4)

\* -------------------------------------------------------- version parser

\* SmartctlVersionParser::parse_version_text: the short and the full version
\* of the first version line of the text; none when the text has no such line.
VersionOf(line) ==
    CASE line = VersionLineNew ->
            [found |-> TRUE, version |-> "7.2", version_full |-> "7.2 2020-12-30 r5155"]
      [] line = VersionLineOld ->
            [found |-> TRUE, version |-> "4.0", version_full |-> "4.0"]
      [] OTHER -> [found |-> FALSE, version |-> "", version_full |-> ""]

parse_version_text(t) ==
    LET idx == { i \in 1..Len(t) : VersionOf(t[i]).found }
    IN  IF idx = {} THEN VersionOf("") ELSE VersionOf(t[Min(idx)])

\* SmartctlVersionParser::check_format_supported(Text, version)
check_format_supported(version) == version \in { "7.2" }

\* ------------------------------------------------------------ info section

\* The expressions a reported value matches.
ValueRe(value) ==
    CASE value = "Not in smartctl database [for details use: -P showall]" -> { "Not in " }
      [] value = "Available - device has SMART capability." -> { "Available - device has" }
      [] value = "Enabled" -> { "Enabled" }
      [] value = "Disabled" -> { "Disabled" }
      [] value = "Unavailable - device lacks SMART capability." -> { "Unavailable" }
      [] value = "Ambiguous - ATA IDENTIFY DEVICE words 82-83 don't show if SMART supported." -> { "Ambiguous" }
      [] OTHER -> {}

\* SmartctlTextParserHelper::parse_byte_size(value, v, true): the readable
\* size (empty on failure) and the number of bytes.
parse_byte_size(value) ==
    CASE value = "500,107,862 bytes [500 MB]" ->
            [readable |-> "476.94 MiB, 500.11 MB [500107862 bytes]", bytes |-> 500107862]
      [] OTHER -> [readable |-> "", bytes |-> 0]

\* hz::string_to_number_nolocale<int64_t>(value, false): the leading number,
\* 0 when there is none.
string_to_number_nolocale(value) ==
    CASE value = "7200 rpm" -> 7200
      [] value = "5400 rpm" -> 5400
      [] OTHER -> 0

\* The names parse_section_info_property gives a string value to, in the
\* order of the source: reported name, generic name, displayable name.
InfoStringNames ==
    << <<"Model Family", "model_family", "Model Family">>,
       <<"Device Model", "model_name", "Device Model">>,
       <<"Device", "model_name", "Device Model">>,
       <<"Product", "model_name", "Device Model">>,
       <<"Vendor", "vendor", "Vendor">>,
       <<"Revision", "revision", "Revision">>,
       <<"Device type", "device_type/name", "Device Type">>,
       <<"Compliance", "scsi_version", "Compliance">>,
       <<"Serial Number", "serial_number", "Serial Number">>,
       <<"LU WWN Device Id", "wwn/_merged", "World Wide Name">>,
       <<"Add. Product Id", "ata_additional_product_id", "Additional Product ID">>,
       <<"Firmware Version", "firmware_version", "Firmware Version">>,
       <<"Sector Sizes", "physical_block_size/_and/logical_block_size", "Sector Sizes">>,
       <<"Sector Size", "physical_block_size/_and/logical_block_size", "Sector Size">>,
       <<"Logical block size", "logical_block_size", "Logical Block Size">>,
       <<"Form Factor", "form_factor/name", "Form Factor">>,
       <<"ATA Version is", "ata_version/string", "ATA Version">>,
       <<"ATA Standard is", "ata_version/string", "ATA Standard">>,
       <<"SATA Version is", "sata_version/string", "SATA Version">>,
       <<"Local Time is", "local_time/asctime", "Scanned on">>,
       <<"AAM feature is", "ata_aam/enabled", "AAM Feature">>,
       <<"AAM level is", "ata_aam/level", "AAM Level">>,
       <<"APM feature is", "ata_apm/enabled", "APM Feature">>,
       <<"APM level is", "ata_apm/level", "APM Level">>,
       <<"Rd look-ahead is", "read_lookahead/enabled", "Read Look-Ahead">>,
       <<"Write cache is", "write_cache/enabled", "Write Cache">>,
       <<"Wt Cache Reorder", "_text_only/write_cache_reorder", "Write Cache Reorder">>,
       <<"DSN feature is", "ata_dsn/enabled", "DSN Feature">>,
       <<"Power mode was", "_text_only/power_mode", "Power Mode">>,
       <<"Power mode is", "_text_only/power_mode", "Power Mode">>,
       <<"ATA Security is", "ata_security/string", "ATA Security">> >>

\* The reported names that begin with "scsiMode".
ScsiModeNames == { "scsiModePageOffset", "scsiModeSense" }

\* parse_section_info_property: the result and the property as it leaves.
parse_section_info_property(p) ==
    LET name == p.reported_name
        value == IF p.reported_value = <<>> THEN "" ELSE p.reported_value[1]
        rows == { i \in 1..Len(InfoStringNames) : InfoStringNames[i][1] = name }
        row == InfoStringNames[Min(rows)]
        size == parse_byte_size(value)
        smart(gen, disp, b) == [set_name(p, gen, disp, name) EXCEPT !.value = ValueBool(b)]
    IN  IF p.section # "Info" THEN [result |-> "InternalError", p |-> p]
        ELSE [result |-> "ok", p |->
            CASE name = "User Capacity" ->
                    LET q == set_name(p, "user_capacity/bytes", "Capacity", name)
                    IN  IF size.readable = ""
                        THEN [q EXCEPT !.readable_value = "[unknown]"]
                        ELSE [q EXCEPT !.readable_value = size.readable,
                                       !.value = ValueInteger(size.bytes)]
              [] name = "Rotation Rate" ->
                    [set_name(p, "rotation_rate", "Rotation Rate", name)
                        EXCEPT !.value = ValueInteger(string_to_number_nolocale(value))]
              [] name = "Device is" ->
                    [set_name(p, "in_smartctl_database", "In Smartctl Database", name)
                        EXCEPT !.value = ValueBool("Not in " \notin ValueRe(value))]
              [] name = "SMART support is" ->
                    IF "Available - device has" \in ValueRe(value)
                    THEN smart("smart_support/available", "SMART Supported", TRUE)
                    ELSE IF "Enabled" \in ValueRe(value)
                    THEN smart("smart_support/enabled", "SMART Enabled", TRUE)
                    ELSE IF "Disabled" \in ValueRe(value)
                    THEN smart("smart_support/enabled", "SMART Enabled", FALSE)
                    ELSE IF "Unavailable" \in ValueRe(value)
                    THEN smart("smart_support/available", "SMART Supported", FALSE)
                    ELSE IF "Ambiguous" \in ValueRe(value)
                    THEN smart("smart_support/available", "SMART Supported", TRUE)
                    ELSE p
              [] rows # {} /\ name \notin { "User Capacity", "Rotation Rate", "Device is", "SMART support is" } ->
                    WithStringValue(set_name(p, row[2], row[3], name))
              [] name \in ScsiModeNames -> [p EXCEPT !.show_in_ui = FALSE]
              [] OTHER -> WithStringValue(p) ]

\* Capture of "==> WARNING: (text)", trimmed.
WarningText(line) ==
    CASE line = WarningLine -> "A firmware update for this drive may be available,"
      [] OTHER -> ""

\* The '_text_only/info_warning' property of a closed warning.
InfoWarningProperty(warning_msg) ==
    WithStringValue([set_name(StorageProperty, "_text_only/info_warning", "Warning", "")
                        EXCEPT !.section = "Info", !.reported_value = warning_msg])

\* Variant: the properties of the Info lines are made for no section.
InfoSectionUnknown == "Unknown"

\* The section of the properties parse_section_info makes.
InfoSection == "Info"

\* One iteration of the line loop of parse_section_info.  st holds the
\* locals (expecting_warning_lines, warning_msg), the properties appended so
\* far and the result ("" while the loop runs on).
InfoLine(st, line) ==
    IF st.result # "" THEN st
    ELSE IF st.expecting_warning_lines THEN
        IF line # ""
        THEN [st EXCEPT !.warning_msg = Append(@, line)]
        ELSE [st EXCEPT !.expecting_warning_lines = FALSE,
                        !.props = Append(@, InfoWarningProperty(st.warning_msg)),
                        !.warning_msg = <<>>]
    ELSE IF line = "" THEN st
    ELSE IF ReInfoWarning \in Re(line)
    THEN [st EXCEPT !.warning_msg = <<WarningText(line)>>, !.expecting_warning_lines = TRUE]
    ELSE IF Re(line) \cap ReInfoNoise # {} THEN st
    ELSE IF ReInfoLine \in Re(line) THEN
        LET p == [set_name(StorageProperty, LineName(line), LineName(line), LineName(line))
                     EXCEPT !.section = InfoSection, !.reported_value = <<LineValue(line)>>]
            Added(r) == IF r.result # "ok" THEN [st EXCEPT !.result = r.result]
                        ELSE [st EXCEPT !.props = Append(@, r.p)]
        IN  Added(parse_section_info_property(p))
    ELSE st

\* parse_section_info(body): the result and the properties it appends.
parse_section_info(body) ==
    LET st0 == [expecting_warning_lines |-> FALSE, warning_msg |-> <<>>,
                props |-> <<>>, result |-> ""]
        f[i \in 0..Len(body)] == IF i = 0 THEN st0 ELSE InfoLine(f[i-1], body[i])
        Finished(end) ==
            [result |-> IF end.result = "" THEN "ok" ELSE end.result, props |-> end.props]
    IN  Finished(f[Len(body)])

\* ------------------------------------------------------ subsection parsers
\* Each parser yields its result and the properties it appends, in order.

\* A property of section sec with the given generic and displayable names.
Template(sec, gen, disp) ==
    [set_name(StorageProperty, gen, disp, "") EXCEPT !.section = sec]

\* The dump of the whole subsection text, a string property.
Merged(sec, gen, disp, sub) ==
    WithStringValue([Template(sec, gen, disp) EXCEPT !.reported_value = sub])

\* The first line of the text that matches the expression (0: none).
FirstMatch(re, t) ==
    LET idx == { i \in 1..Len(t) : re \in Re(t[i]) }
    IN  IF idx = {} THEN 0 ELSE Min(idx)

\* Variant: every value but "FAILED" passes.
HealthPassedUnlessFailed(value) == value # "FAILED"

\* pt.reported_value == "PASSED"
HealthPassed(value) == value = "PASSED"

parse_section_data_subsection_health(sub) ==
    LET i == FirstMatch(ReHealthLine, sub)
        name == LineName(sub[i])
        value == LineValue(sub[i])
        pt == [set_name(StorageProperty, name, "smart_status/passed",
                        "Overall Health Self-Assessment Test")
                  EXCEPT !.section = "OverallHealth",
                         !.reported_value = <<value>>,
                         !.value = ValueBool(HealthPassed(value)),
                         !.readable_value = IF HealthPassed(value) THEN "PASSED" ELSE "FAILED"]
    IN  IF i = 0 THEN [result |-> "DataError", props |-> <<>>]
        ELSE IF ReHealthName \in Re(sub[i])
        THEN [result |-> "ok", props |-> <<pt>>]
        ELSE [result |-> "ok", props |-> <<>>]

parse_section_data_subsection_directory_log(sub) ==
    [result |-> "ok",
     props |->
        << Merged("DirectoryLog", "ata_log_directory/_merged",
                  "General Purpose Log Directory", sub),
           [Template("DirectoryLog", "_text_only/directory_log_supported",
                     "General Purpose Log Directory supported")
               EXCEPT !.value =
                   ValueBool(~Match("General Purpose Log Directory not supported", sub))] >>]

\* Capture 1 of ReErrorLogVersion (the name) and the capture the source binds
\* to 'value', which is capture 2.
ErrorLogVersionName(line) ==
    CASE line = "SMART Error Log Version: 1" -> "SMART Error Log Version"
      [] line = "SMART Extended Comprehensive Error Log Version: 1 (1 sectors)" ->
            "SMART Extended Comprehensive Error Log Version"
      [] OTHER -> ""

ErrorLogVersionCapture2(line) ==
    CASE line = "SMART Extended Comprehensive Error Log Version: 1 (1 sectors)" ->
            "Extended Comprehensive"
      [] OTHER -> ""

\* hz::string_is_numeric_nolocale(text, n, false): the number the text
\* begins with; n keeps its initial 0 when there is none.
NumericOf(text) ==
    CASE text \in { "0", "00%" } -> 0
      [] text \in { "1", "1 (1 sectors)" } -> 1
      [] text = "2" -> 2
      [] text = "16" -> 16
      [] OTHER -> 0

\* Capture 1 of ReErrorCount, trimmed.
ErrorCountValue(line) ==
    CASE line = "Device Error Count: 1" -> "1"
      [] line = "ATA Error Count: 2" -> "2"
      [] OTHER -> ""

\* The error blocks of the subsection: every line that opens one.
ErrorBlocks(sub) == { i \in 1..Len(sub) : ReErrorBlock \in Re(sub[i]) }

\* Captures 2, 3 and 4 of ReErrorBlock for the line that opens a block.
ErrorBlockCaptures(line) ==
    CASE line = "Error 1 [0] occurred at disk power-on lifetime: 1 hours (0 days + 1 hours)" ->
            [name |-> "Error 1", error_num |-> 1, lifetime_hours |-> 1]
      [] OTHER -> [name |-> "", error_num |-> 0, lifetime_hours |-> 0]

\* The text of the block opened at line i: the line and the indented lines
\* (and blank-then-indented lines) after it.
ErrorBlockText(sub, i) ==
    LET cont(j) == "^  " \in Re(sub[j])
                   \/ (sub[j] = "" /\ j < Len(sub) /\ "^  " \in Re(sub[j+1]))
        last == Max({ j \in i..Len(sub) : \A k \in (i+1)..j : cont(k) })
    IN  string_trim_copy(SubSeq(sub, i, last))

ValueErrorBlock(block, c) ==
    ValueStruct("error_block",
                [kind |-> "error_block", error_num |-> c.error_num,
                 lifetime_hours |-> c.lifetime_hours])

parse_section_data_subsection_error_log(sub) ==
    LET sec == "AtaErrorLog"
        iv == FirstMatch(ReErrorLogVersion, sub)
        vname == ErrorLogVersionName(sub[iv])
        vvalue == ErrorLogVersionCapture2(sub[iv])
        version ==
            IF iv = 0 THEN <<>>
            ELSE << [set_name(StorageProperty, "ata_smart_error_log/extended/revision", vname, vname)
                        EXCEPT !.section = sec, !.reported_value = <<vvalue>>,
                               !.value = ValueInteger(NumericOf(vvalue))] >>
        unsupported ==
            IF Match(ReErrorLogUnsupported, sub)
            THEN << [Template(sec, "_text_only/ata_smart_error_log/_not_present", "Warning")
                        EXCEPT !.readable_value = "Device does not support error logging"] >>
            ELSE <<>>
        ic == FirstMatch(ReErrorCount, sub)
        cvalue == IF ic = 0 THEN "" ELSE ErrorCountValue(sub[ic])
        count ==
            IF ic # 0 \/ Match(ReNoErrors, sub)
            THEN << [Template(sec, "ata_smart_error_log/extended/count", "ATA Error Count")
                        EXCEPT !.reported_value = <<cvalue>>,
                               !.value = ValueInteger(IF Match(ReNoErrors, sub) THEN 0
                                                      ELSE NumericOf(cvalue))] >>
            ELSE <<>>
        blocks == ErrorBlocks(sub)
        entry(i) ==
            LET c == ErrorBlockCaptures(sub[i])
                block == ErrorBlockText(sub, i)
            IN  [set_name(StorageProperty, c.name, c.name, c.name)
                    EXCEPT !.section = sec, !.reported_value = block,
                           !.value = ValueErrorBlock(block, c)]
        e[i \in 0..Len(sub)] ==
            IF i = 0 THEN <<>>
            ELSE IF i \in blocks THEN Append(e[i-1], entry(i)) ELSE e[i-1]
        Finished(v, c, entries) ==
            LET data_found == v # <<>> \/ c # <<>> \/ entries # <<>>
            IN  [result |-> IF data_found THEN "ok" ELSE "DataError",
                 props |-> v \o unsupported \o c \o entries
                           \o << Merged(sec, "ata_smart_error_log/_merged",
                                         "SMART Error Log", sub) >>]
    IN  Finished(version, count, e[Len(sub)])

parse_section_data_subsection_selective_selftest_log(sub) ==
    LET sec == "SelectiveSelftestLog"
        supported == ~Match("Device does not support Selective Self Tests\\/Logging", sub)
    IN  [result |-> IF ~supported THEN "ok" ELSE "DataError",
         props |->
            << Merged(sec, "ata_smart_selective_self_test_log/_merged",
                      "SMART selective self-test log", sub),
               [Template(sec, "ata_smart_data/capabilities/selective_self_test_supported",
                         "Selective self-tests supported")
                   EXCEPT !.value = ValueBool(supported)] >>]

\* Capture 2 of "^(Current Temperature):[ \\t]+(.*) Celsius$".
CurrentTemperatureValue(line) ==
    CASE line = "Current Temperature:                    39 Celsius" -> "39"
      [] OTHER -> ""

TemperatureOf(text) ==
    CASE text = "39" -> 39
      [] OTHER -> 0

parse_section_data_subsection_scttemp_log(sub) ==
    LET sec == "TemperatureLog"
        unsupported == Match("(SCT Commands not supported)|(SCT Data Table command not supported)", sub)
        it == FirstMatch("^(Current Temperature):[ \\t]+(.*) Celsius$", sub)
        tvalue == CurrentTemperatureValue(sub[it])
        current ==
            IF it = 0 THEN <<>>
            ELSE << [Template(sec, "ata_sct_status/temperature/current", "Current Temperature")
                        EXCEPT !.reported_value = <<tvalue>>,
                               !.value = ValueInteger(TemperatureOf(tvalue))] >>
    IN  [result |-> IF unsupported \/ it # 0 THEN "ok" ELSE "DataError",
         props |->
            << Merged(sec, "ata_sct_status/_and/ata_sct_temperature_history/_merged",
                      "SCT temperature log", sub),
               [Template(sec, "_text_only/ata_sct_status/_not_present", "SCT commands unsupported")
                   EXCEPT !.value = ValueBool(unsupported)] >> \o current]

parse_section_data_subsection_scterc_log(sub) ==
    LET sec == "ErcLog"
        supported == ~Match("SCT Error Recovery Control command not supported", sub)
    IN  [result |-> IF supported THEN "ok" ELSE "DataError",
         props |->
            << Merged(sec, "ata_sct_erc/_merged", "SCT ERC log", sub),
               [Template(sec, "ata_sct_erc/_present", "SCT ERC supported")
                   EXCEPT !.value = ValueBool(supported)] >>]

parse_section_data_subsection_sataphy(sub) ==
    LET sec == "PhyLog"
        supported == ~Match("SATA Phy Event Counters \\(GP Log 0x11\\) not supported", sub)
                     /\ ~Match("SATA Phy Event Counters with [0-9-]+ sectors not supported", sub)
    IN  [result |-> IF supported THEN "ok" ELSE "DataError",
         props |->
            << Merged(sec, "sata_phy_event_counters/_merged", "SATA Phy log", sub),
               [Template(sec, "sata_phy_event_counters/_present", "SATA Phy log supported")
                   EXCEPT !.value = ValueBool(supported)] >>]

\* ---------------------------------------------------------- capabilities

\* Tables of the capability lines: does the line begin with a blank or a
\* tab, does it hold a ':'.
StartsWithBlank(line) == "^[ \\t]" \in Re(line)
HasColon(line) == ":" \in Re(line)

\* One iteration of the block-building loop; st holds blocks and partial.
CapabilityLine(st, line) ==
    IF line = "" \/ "General SMART Values" \in Re(line) THEN st
    ELSE IF ~StartsWithBlank(line) /\ ~st.partial
    THEN [blocks |-> Append(st.blocks, <<line>>), partial |-> ~HasColon(line)]
    ELSE LET partial == IF st.partial /\ HasColon(line) THEN FALSE ELSE st.partial
             blocks == IF st.blocks = <<>> THEN << <<>> >> ELSE st.blocks
         IN  [blocks |-> [blocks EXCEPT ![Len(blocks)] = Append(@, line)],
              partial |-> partial]

CapabilityBlocks(sub) ==
    LET f[i \in 0..Len(sub)] ==
            IF i = 0 THEN [blocks |-> <<>>, partial |-> FALSE]
            ELSE CapabilityLine(f[i-1], sub[i])
    IN  f[Len(sub)].blocks

\* The full match of a block against "([^:]*):\s*\(([^)]+)\)\s*([\s\S]*)":
\* the flattened name, the number in the parentheses (-1 when it is none),
\* the flattened text after it and its sentences.
CapabilityCaptures(block) ==
    CASE block = <<"Short self-test routine", "recommended polling time: \t ( 2) minutes.">> ->
            [matched |-> TRUE, name |-> "Short self-test routine recommended polling time",
             numvalue_orig |-> " 2", numvalue |-> 2, strvalue |-> "minutes.",
             strvalues |-> <<"minutes">>]
      [] block = <<"Total time to complete Offline", "data collection: \t\t(   45) seconds.">> ->
            [matched |-> TRUE, name |-> "Total time to complete Offline data collection",
             numvalue_orig |-> "   45", numvalue |-> 45, strvalue |-> "seconds.",
             strvalues |-> <<"seconds">>]
      [] block = <<SctCapabilitiesLine>> ->
            [matched |-> TRUE, name |-> "SCT capabilities",
             numvalue_orig |-> "0x003d", numvalue |-> 61, strvalue |-> "SCT Status supported.",
             strvalues |-> <<"SCT Status supported">>]
      [] block = <<"Self-test execution status:      (   0)\tThe previous self-test routine completed",
                   "\t\t\t\t\twithout error or no self-test has ever",
                   "\t\t\t\t\tbeen run.">> ->
            [matched |-> TRUE, name |-> "Self-test execution status",
             numvalue_orig |-> "   0", numvalue |-> 0,
             strvalue |-> "The previous self-test routine completed without error or no self-test has ever been run.",
             strvalues |-> <<"The previous self-test routine completed without error or no self-test has ever been run">>]
      [] OTHER -> [matched |-> FALSE, name |-> "", numvalue_orig |-> "", numvalue |-> -1,
                   strvalue |-> "", strvalues |-> <<>>]

\* The group and duration names, matched on the beginning of the name.
CapabilityGroupName(name) ==
    CASE name = "Offline data collection status" -> "ata_smart_data/offline_data_collection/status/_group"
      [] name = "Offline data collection capabilities" -> "ata_smart_data/offline_data_collection/_group"
      [] name = "SMART capabilities" -> "ata_smart_data/capabilities/_group"
      [] name = "Error logging capability" -> "ata_smart_data/capabilities/error_logging_supported/_group"
      [] name = "SCT capabilities" -> "ata_sct_capabilities/_group"
      [] name = "Self-test execution status" -> "ata_smart_data/self_test/status/_group"
      [] OTHER -> ""

CapabilityTimeName(name) ==
    CASE name = "Total time to complete Offline data collection" ->
            "ata_smart_data/offline_data_collection/completion_seconds"
      [] name = "Short self-test routine recommended polling time" ->
            "ata_smart_data/self_test/polling_minutes/short"
      [] name = "Extended self-test routine recommended polling time" ->
            "ata_smart_data/self_test/polling_minutes/extended"
      [] name = "Conveyance self-test routine recommended polling time" ->
            "ata_smart_data/self_test/polling_minutes/conveyance"
      [] OTHER -> ""

\* The internal property mined from one capability sentence: its generic
\* name and boolean, or no name when the sentence matches nothing.
CapabilitySentence(sv) ==
    CASE sv = "SMART execute Offline immediate" ->
            [gen |-> "ata_smart_data/capabilities/exec_offline_immediate_supported", b |-> TRUE]
      [] sv = "Auto Offline data collection on/off support" ->
            [gen |-> "_text_only/aodc_support", b |-> TRUE]
      [] sv = "No Auto Offline data collection support" ->
            [gen |-> "_text_only/aodc_support", b |-> FALSE]
      [] sv = "Suspend Offline collection upon new command" ->
            [gen |-> "ata_smart_data/capabilities/offline_is_aborted_upon_new_cmd", b |-> TRUE]
      [] sv = "Offline surface scan supported" ->
            [gen |-> "ata_smart_data/capabilities/offline_surface_scan_supported", b |-> TRUE]
      [] sv = "Self-test supported" ->
            [gen |-> "ata_smart_data/capabilities/self_tests_supported", b |-> TRUE]
      [] sv = "No Conveyance Self-test supported" ->
            [gen |-> "ata_smart_data/capabilities/conveyance_self_test_supported", b |-> FALSE]
      [] sv = "Selective Self-test supported" ->
            [gen |-> "ata_smart_data/capabilities/selective_self_test_supported", b |-> TRUE]
      [] sv = "SCT Status supported" ->
            [gen |-> "ata_sct_capabilities/value/_present", b |-> TRUE]
      [] sv = "SCT Feature Control supported" ->
            [gen |-> "ata_sct_capabilities/feature_control_supported", b |-> TRUE]
      [] sv = "SCT Data Table supported" ->
            [gen |-> "ata_sct_capabilities/data_table_supported", b |-> TRUE]
      [] OTHER -> [gen |-> "", b |-> FALSE]

\* The status one self-test-status sentence decodes to ("" when it decodes
\* to none).
SelftestSentenceStatus(sv) ==
    CASE sv = "The previous self-test routine completed without error or no self-test has ever been run" ->
            "CompletedNoError"
      [] sv = "The self-test routine was aborted by the host" -> "AbortedByHost"
      [] sv = "Self-test routine in progress" -> "InProgress"
      [] OTHER -> ""

\* The status after the loop over the sentences: the last one decoded.
SelftestStatusOf(strvalues) ==
    LET f[i \in 0..Len(strvalues)] ==
            IF i = 0 THEN "Unknown"
            ELSE IF SelftestSentenceStatus(strvalues[i]) # ""
                 THEN SelftestSentenceStatus(strvalues[i]) ELSE f[i-1]
    IN  f[Len(strvalues)]

\* parse_section_data_internal_capabilities(cap_prop): the result, the
\* properties it appends itself and cap_prop as it leaves.
parse_section_data_internal_capabilities(cap_prop) ==
    LET named ==
            IF cap_prop.value.type = "capability" /\ CapabilityGroupName(cap_prop.reported_name) # ""
            THEN [cap_prop EXCEPT !.generic_name = CapabilityGroupName(cap_prop.reported_name)]
            ELSE cap_prop
        strvalues == cap_prop.value.data.strvalues
        merged ==
            [Template("Capabilities", "ata_smart_data/self_test/status/_merged",
                      "Self-test execution status")
                EXCEPT !.value = ValueStruct("selftest_entry",
                    [kind |-> "selftest_entry", test_num |-> 0, remaining_percent |-> -1,
                     status |-> SelftestStatusOf(strvalues)])]
        found(p) == IF ~empty(p) THEN <<p>> ELSE <<>>
        property(sv, c) ==
            IF c.gen = "" THEN [StorageProperty EXCEPT !.section = "Capabilities"]
            ELSE [Template("Capabilities", c.gen, sv) EXCEPT !.value = ValueBool(c.b)]
        mined(sv) == found(property(sv, CapabilitySentence(sv)))
        m[i \in 0..Len(strvalues)] ==
            IF i = 0 THEN <<>> ELSE m[i-1] \o mined(strvalues[i])
    IN  IF cap_prop.section # "Capabilities"
        THEN [result |-> "DataError", props |-> <<>>, p |-> cap_prop]
        ELSE IF cap_prop.reported_name = "Self-test execution status"
        THEN [result |-> "ok", props |-> <<merged>>, p |-> named]
        ELSE IF cap_prop.value.type = "seconds"
        THEN [result |-> "ok", props |-> <<>>,
              p |-> IF CapabilityTimeName(cap_prop.reported_name) # ""
                    THEN [cap_prop EXCEPT !.generic_name = CapabilityTimeName(cap_prop.reported_name)]
                    ELSE cap_prop]
        ELSE IF cap_prop.value.type = "capability"
        THEN [result |-> "ok", props |-> m[Len(strvalues)], p |-> named]
        ELSE [result |-> "DataError", props |-> <<>>, p |-> cap_prop]

\* Variant: the number is taken as it is reported.
DurationAsReported(numvalue, strvalue) == numvalue

\* numvalue after 'if (... == "minutes") numvalue *= 60': always in seconds.
DurationSeconds(numvalue, strvalue) ==
    IF strvalue \in { "minutes.", "minutes" } THEN numvalue * 60 ELSE numvalue

\* One block of the capabilities subsection: the properties it appends and
\* whether it sets cap_found.
CapabilityBlock(block) ==
    LET c == CapabilityCaptures(block)
        pt == [set_name(StorageProperty, c.name, c.name, c.name)
                  EXCEPT !.section = "Capabilities",
                         !.reported_value = <<c.numvalue_orig, " | ", c.strvalue>>]
        time == c.strvalue \in { "minutes.", "minutes", "seconds.", "seconds" }
        p == IF time THEN [pt EXCEPT !.value = ValueSeconds(DurationSeconds(c.numvalue, c.strvalue))]
             ELSE [pt EXCEPT !.value = ValueStruct("capability",
                        [kind |-> "capability", flag_value |-> c.numvalue % 65536,
                         strvalues |-> c.strvalues])]
        Added(r) ==
            IF ~c.matched THEN [found |-> FALSE, props |-> <<>>]
            ELSE IF r.result = "ok" THEN [found |-> TRUE, props |-> Append(r.props, r.p)]
            ELSE [found |-> FALSE, props |-> r.props]
    IN  Added(parse_section_data_internal_capabilities(p))

parse_section_data_subsection_capabilities(sub) ==
    LET Added(st, r) == [cap_found |-> st.cap_found \/ r.found, props |-> st.props \o r.props]
        blocks == CapabilityBlocks(sub)
        f[i \in 0..Len(blocks)] ==
            IF i = 0 THEN [cap_found |-> FALSE, props |-> <<>>]
            ELSE Added(f[i-1], CapabilityBlock(blocks[i]))
        Finished(end) ==
            [result |-> IF end.cap_found THEN "ok" ELSE "DataError", props |-> end.props]
    IN  Finished(f[Len(blocks)])

\* ------------------------------------------------------------- attributes

\* The full match of a table row against the expression of the format style
\* in force: the captures (the brief format has no type and no update
\* column).
AttributeRow(line, style) ==
    CASE line = Row194 /\ style = "FormatStyleBrief" ->
            [matched |-> TRUE, id |-> "194", name |-> "Temperature_Celsius", flag |-> "-O----",
             value |-> "222", worst |-> "222", threshold |-> "000", attr_type |-> "",
             update_type |-> "", when_failed |-> "-", raw_value |-> "27 (Min/Max 12/48)"]
      [] line = Row5 /\ style = "FormatStyleBrief" ->
            [matched |-> TRUE, id |-> "5", name |-> "Reallocated_Sector_Ct", flag |-> "PO--CK",
             value |-> "100", worst |-> "100", threshold |-> "---", attr_type |-> "",
             update_type |-> "", when_failed |-> "Past", raw_value |-> "0"]
      [] line = Row9 /\ style = "FormatStyleBrief" ->
            [matched |-> TRUE, id |-> "9", name |-> "Power_On_Hours", flag |-> "-O--CK",
             value |-> "---", worst |-> "300", threshold |-> "099", attr_type |-> "",
             update_type |-> "", when_failed |-> "NOW", raw_value |-> "1720"]
      [] line = RowOld /\ style = "FormatStyleOld" ->
            [matched |-> TRUE, id |-> "1", name |-> "Raw_Read_Error_Rate", flag |-> "0x000f",
             value |-> "100", worst |-> "100", threshold |-> "051", attr_type |-> "Pre-fail",
             update_type |-> "Always", when_failed |-> "-", raw_value |-> "0"]
      [] line = RowOld /\ style = "FormatStyleNoUpdated" ->
            [matched |-> TRUE, id |-> "1", name |-> "Raw_Read_Error_Rate", flag |-> "0x000f",
             value |-> "100", worst |-> "100", threshold |-> "051", attr_type |-> "Pre-fail",
             update_type |-> "", when_failed |-> "Always", raw_value |-> "-       0"]
      [] line = RowNoUpdated /\ style = "FormatStyleNoUpdated" ->
            [matched |-> TRUE, id |-> "3", name |-> "Spin_Up_Time", flag |-> "0x0007",
             value |-> "100", worst |-> "100", threshold |-> "025", attr_type |-> "Pre-fail",
             update_type |-> "", when_failed |-> "-", raw_value |-> "6320"]
      [] OTHER ->
            [matched |-> FALSE, id |-> "", name |-> "", flag |-> "", value |-> "",
             worst |-> "", threshold |-> "", attr_type |-> "", update_type |-> "",
             when_failed |-> "", raw_value |-> ""]

\* The number a text of digits holds in base 10; -1 when the text is no
\* number.
DecimalOf(text) ==
    CASE text \in { "0", "000" } -> 0
      [] text = "1" -> 1
      [] text = "3" -> 3
      [] text = "025" -> 25
      [] text = "051" -> 51
      [] text = "5" -> 5
      [] text = "9" -> 9
      [] text = "099" -> 99
      [] text = "100" -> 100
      [] text = "194" -> 194
      [] text = "222" -> 222
      [] text = "300" -> 300
      [] text = "1720" -> 1720
      [] OTHER -> -1

\* hz::string_is_numeric_nolocale(text, n, true, 10) for a uint8_t n, and
\* the optional it fills: the number, -1 when the optional stays empty.
Uint8Of(text) == IF DecimalOf(text) \in 0..255 THEN DecimalOf(text) ELSE -1

\* The letters a flag string holds.
FlagLetters(flag) ==
    CASE flag = "-O----" -> { "O" }
      [] flag = "PO--CK" -> { "P", "O", "C", "K" }
      [] flag = "-O--CK" -> { "O", "C", "K" }
      [] OTHER -> {}

\* Variant: the class is read from the type column in every format style.
AttributeTypeOfColumn(style, flag, attr_type) ==
    IF attr_type = "Pre-fail" THEN "Prefail"
    ELSE IF attr_type = "Old_age" THEN "OldAge"
    ELSE "Unknown"

\* attr.attr_type
AttributeType(style, flag, attr_type) ==
    IF style = "FormatStyleBrief"
    THEN IF "P" \in FlagLetters(flag) THEN "Prefail" ELSE "OldAge"
    ELSE IF attr_type = "Pre-fail" THEN "Prefail"
    ELSE IF attr_type = "Old_age" THEN "OldAge"
    ELSE "Unknown"

\* attr.update_type
UpdateType(style, flag, update_type) ==
    IF style = "FormatStyleBrief"
    THEN IF "O" \in FlagLetters(flag) THEN "Always" ELSE "Offline"
    ELSE IF update_type \in { "Always", "Offline" } THEN update_type
    ELSE "Unknown"

\* attr.when_failed
FailTime(when_failed) ==
    IF when_failed = "-" THEN "None"
    ELSE IF when_failed \in { "In_the_past", "Past" } THEN "Past"
    ELSE IF when_failed \in { "FAILING_NOW", "NOW" } THEN "Now"
    ELSE "Unknown"

\* The AtaStorageAttribute made of the captures of a row.
AttributeOf(c, style) ==
    [kind |-> "attribute", id |-> DecimalOf(c.id), flag |-> c.flag,
     value |-> Uint8Of(c.value), worst |-> Uint8Of(c.worst),
     threshold |-> Uint8Of(c.threshold),
     attr_type |-> AttributeType(style, c.flag, c.attr_type),
     update_type |-> UpdateType(style, c.flag, c.update_type),
     when_failed |-> FailTime(c.when_failed), raw_value |-> c.raw_value]

\* Capture 1 and 2 of "^([^:\n]+):[ \t]*(.*)$" on a revision line.
RevisionName(line) ==
    CASE line = "SMART Attributes Data Structure revision number: 16" ->
            "SMART Attributes Data Structure revision number"
      [] OTHER -> ""

RevisionValue(line) ==
    CASE line = "SMART Attributes Data Structure revision number: 16" -> "16"
      [] OTHER -> ""

\* One iteration of the line loop of the attribute parser.
\* Variant: a header row with both columns selects the legacy format with
\* the update column.
FormatStyleOfLastHeader(style, line) ==
    IF "WHEN_FAILED" \notin Re(line) THEN "FormatStyleBrief"
    ELSE IF "UPDATED" \notin Re(line) THEN "FormatStyleNoUpdated"
    ELSE "FormatStyleOld"

\* attr_format_style once a header row has been met.
FormatStyle(style, line) ==
    IF "WHEN_FAILED" \notin Re(line) THEN "FormatStyleBrief"
    ELSE IF "UPDATED" \notin Re(line) THEN "FormatStyleNoUpdated"
    ELSE style

AttributeLine(st, line) ==
    IF line = "" \/ "SMART Attributes with Thresholds" \in Re(line) THEN st
    ELSE IF "ATTRIBUTE_NAME" \in Re(line) THEN
        [st EXCEPT !.attr_format_style = FormatStyle(@, line)]
    ELSE IF "^[\\t ]+\\|" \in Re(line) THEN st
    ELSE IF "Data Structure revision number" \in Re(line) THEN
        IF ReHealthLine \in Re(line)
        THEN [st EXCEPT !.attr_found = TRUE,
                !.props = Append(@,
                    [set_name(StorageProperty, "ata_smart_attributes/revision",
                              RevisionName(line), RevisionName(line))
                        EXCEPT !.section = "AtaAttributes",
                               !.reported_value = <<RevisionValue(line)>>,
                               !.value = ValueInteger(NumericOf(RevisionValue(line)))])]
        ELSE st
    ELSE LET r == AttributeRow(line, st.attr_format_style)
         IN  IF ~r.matched THEN st
             ELSE [st EXCEPT !.attr_found = TRUE,
                     !.props = Append(@,
                        [set_name(StorageProperty, r.name, r.name, r.name)
                            EXCEPT !.section = "AtaAttributes",
                                   !.reported_value = <<line>>,
                                   !.value = ValueStruct("attribute",
                                        AttributeOf(r, st.attr_format_style))])]

parse_section_data_subsection_attributes(sub) ==
    LET f[i \in 0..Len(sub)] ==
            IF i = 0 THEN [attr_format_style |-> "FormatStyleOld", attr_found |-> FALSE,
                           props |-> <<>>]
            ELSE AttributeLine(f[i-1], sub[i])
        end == f[Len(sub)]
    IN  [result |-> IF end.attr_found THEN "ok" ELSE "DataError", props |-> end.props]

\* ---------------------------------------------------------- self-test log

\* Captures 1 and 2 of the self-test version expression the line matches.
SelftestVersionCaptures(line) ==
    CASE line = "SMART Extended Self-test Log Version: 1 (1 sectors)" ->
            [name |-> "SMART Extended Self-test Log Version", value |-> "1"]
      [] line = "SMART Self-test log structure revision number 1" ->
            [name |-> "SMART Self-test log structure revision number", value |-> "1"]
      [] OTHER -> [name |-> "", value |-> ""]

\* The AtaStorageSelftestEntry of a row that matches ReSelftestEntry.
SelftestEntryCaptures(line) ==
    CASE line = "# 1  Extended offline    Completed without error       00%     43116         -" ->
            [num |-> "1",
             entry |-> [kind |-> "selftest_entry", test_num |-> 1, remaining_percent |-> 0,
                        lifetime_hours |-> 43116, lba_of_first_error |-> "-",
                        type |-> "Extended offline", status |-> "CompletedNoError"]]
      [] OTHER -> [num |-> "", entry |-> NoData]

\* fmt::format("ata_smart_self_test_log/entry/{}", num)
SelftestEntryName(num) ==
    CASE num = "1" -> "ata_smart_self_test_log/entry/1"
      [] num = "2" -> "ata_smart_self_test_log/entry/2"
      [] OTHER -> "ata_smart_self_test_log/entry/"

\* Variant: the count tells only whether a row matched.
TestCountAtMostOne(entries) == IF entries = <<>> THEN 0 ELSE 1

\* test_count: incremented once for every row that matched.
TestCount(entries) == Len(entries)

parse_section_data_subsection_selftest_log(sub) ==
    LET sec == "SelftestLog"
        unsupported ==
            IF Match(ReSelftestUnsupported, sub)
            THEN << [Template(sec, "ata_smart_self_test_log/_present", "Warning")
                        EXCEPT !.readable_value = "Device does not support self-test logging"] >>
            ELSE <<>>
        res == { k \in 1..Len(ReSelftestVersions) : Match(ReSelftestVersions[k], sub) }
        iv == FirstMatch(ReSelftestVersions[Min(res)], sub)
        vc == SelftestVersionCaptures(sub[iv])
        version ==
            IF res = {} THEN <<>>
            ELSE << [Template(sec, "ata_smart_self_test_log/extended/revision", vc.name)
                        EXCEPT !.reported_value = <<vc.value>>,
                               !.value = ValueInteger(NumericOf(vc.value))] >>
        entry(i) ==
            LET c == SelftestEntryCaptures(sub[i])
            IN  [Template(sec, SelftestEntryName(c.num), "Self-test entry")
                    EXCEPT !.reported_value = <<sub[i]>>,
                           !.value = ValueStruct("selftest_entry", c.entry)]
        e[i \in 0..Len(sub)] ==
            IF i = 0 THEN <<>>
            ELSE IF ReSelftestEntry \in Re(sub[i]) THEN Append(e[i-1], entry(i)) ELSE e[i-1]
        entries == e[Len(sub)]
        test_count == TestCount(entries)
        count == [Template(sec, "ata_smart_self_test_log/extended/table/count",
                           "Number of entries in self-test log")
                     EXCEPT !.value = ValueInteger(test_count)]
        data_found == unsupported # <<>> \/ version # <<>> \/ test_count > 0
    IN  [result |-> IF data_found THEN "ok" ELSE "DataError",
         props |-> << Merged(sec, "ata_smart_self_test_log/_merged", "SMART Self-Test Log", sub) >>
                   \o unsupported \o version \o entries \o <<count>>]

\* ------------------------------------------------------ device statistics

\* The full match of a table row against the expression of the format style
\* in force, and the AtaStorageStatistic made of it.
StatisticRow(line, style) ==
    CASE line = "0x01  0x010  4            6360  -D-  Power-on Hours"
           /\ style = "FormatStyleCurrent" ->
            [matched |-> TRUE, name |-> "Power-on Hours",
             st |-> [kind |-> "statistic", is_header |-> FALSE, flags |-> "-D-",
                     value |-> "6360", value_int |-> 6360, page |-> 1, offset |-> 16]]
      [] line = "  7  0x008  1                1~ Percentage Used Endurance Indicator"
           /\ style = "FormatStyleNoFlags" ->
            [matched |-> TRUE, name |-> "Percentage Used Endurance Indicator",
             st |-> [kind |-> "statistic", is_header |-> FALSE, flags |-> "N--",
                     value |-> "1", value_int |-> 1, page |-> 7, offset |-> 8]]
      [] OTHER -> [matched |-> FALSE, name |-> "", st |-> NoData]

ReStatisticSkip ==
    { "^Device Statistics \\((?:GP|SMART) Log 0x04\\)",
      "^ATA_SMART_READ_LOG failed:",
      "^Read Device Statistics page (?:.+) failed",
      "^Read Device Statistics pages (?:.+) failed" }

\* One iteration of the line loop of the device statistics parser.
StatisticLine(st, line) ==
    IF line = "" \/ Re(line) \cap ReStatisticSkip # {} THEN st
    ELSE IF "^Page[\\t ]+Offset[\\t ]+Size" \in Re(line) THEN
        IF "[\\t ]+Flags[\\t ]+" \notin Re(line)
        THEN [st EXCEPT !.devstat_format_style = "FormatStyleNoFlags"]
        ELSE st
    ELSE IF "^[\\t ]+\\|" \in Re(line) THEN st
    ELSE LET r == StatisticRow(line, st.devstat_format_style)
         IN  IF ~r.matched THEN st
             ELSE [st EXCEPT !.entries_found = TRUE,
                     !.props = Append(@,
                        [set_name(StorageProperty, r.name, r.name, r.name)
                            EXCEPT !.section = "Statistics",
                                   !.reported_value = <<line>>,
                                   !.value = ValueStruct("statistic", r.st)])]

parse_section_data_subsection_devstat(sub) ==
    LET supported == ~Match("Device Statistics \\(GP\\/SMART Log 0x04\\) not supported", sub)
        present == [Template("Statistics", "ata_device_statistics/_present",
                             "Device statistics supported")
                       EXCEPT !.value = ValueBool(supported)]
        f[i \in 0..Len(sub)] ==
            IF i = 0 THEN [devstat_format_style |-> "FormatStyleCurrent",
                           entries_found |-> FALSE, props |-> <<present>>]
            ELSE StatisticLine(f[i-1], sub[i])
        end == f[Len(sub)]
    IN  IF ~supported THEN [result |-> "DataError", props |-> <<present>>]
        ELSE [result |-> IF end.entries_found THEN "ok" ELSE "DataError", props |-> end.props]

\* ------------------------------------------------------------ data section

\* hz::string_split(body, "\n\n", split_subsections, true) followed by the
\* trim of the line breaks of each piece: the runs of non-blank lines.
SplitSubsections(body) ==
    LET starts == { i \in 1..Len(body) : body[i] # "" /\ (i = 1 \/ body[i-1] = "") }
        stop(i) == Min({ j \in i..Len(body) : j = Len(body) \/ body[j+1] = "" })
        f[i \in 0..Len(body)] ==
            IF i = 0 THEN <<>>
            ELSE IF i \in starts THEN Append(f[i-1], SubSeq(body, i, stop(i)))
            ELSE f[i-1]
    IN  f[Len(body)]

\* The expressions that mark a piece as the continuation of the subsection
\* before it; they are matched at the very beginning of the piece.
ReContinuation ==
    { "^  ", "^Error [0-9]+", "^SCT Temperature History Version", "^Index[ \\t]+",
      "^Read SCT Temperature History failed" }

\* Variant: no piece is merged; every piece is a subsection.
MergeSubsectionsNever(split_subsections) == split_subsections

MergeSubsections(split_subsections) ==
    LET f[i \in 0..Len(split_subsections)] ==
            IF i = 0 THEN <<>>
            ELSE LET sub == split_subsections[i]
                     prev == f[i-1]
                 IN  IF Re(sub[1]) \cap ReContinuation # {}
                     THEN IF prev # <<>>
                          THEN [prev EXCEPT ![Len(prev)] = @ \o <<"">> \o sub]
                          ELSE prev
                     ELSE Append(prev, sub)
    IN  f[Len(split_subsections)]

\* The classification of parse_section_data, in the order of the source:
\* the parser (or "ignored") and the expressions that select it.
SubsectionTable ==
    << [parser |-> "health", res |-> { "^SMART overall-health self-assessment" }],
       [parser |-> "capabilities", res |-> { "^General SMART Values" }],
       [parser |-> "attributes", res |-> { "^SMART Attributes Data Structure" }],
       [parser |-> "directory_log", res |->
            { "^General Purpose Log Directory Version",
              "^General Purpose Log Directory not supported",
              "^General Purpose Logging \\(GPL\\) feature set supported",
              "^Read GP Log Directory failed",
              "^Log Directories not read due to '-F nologdir' option",
              "^Read SMART Log Directory failed",
              "^SMART Log Directory Version" }],
       [parser |-> "error_log", res |->
            { "^SMART Error Log Version",
              "^SMART Extended Comprehensive Error Log Version",
              "^Warning: device does not support Error Logging",
              "^SMART Error Log not supported",
              "^Read SMART Error Log failed" }],
       [parser |-> "ignored", res |->
            { "^SMART Extended Comprehensive Error Log \\(GP Log 0x03\\) not supported",
              "^SMART Extended Comprehensive Error Log size (.*) not supported",
              "^Read SMART Extended Comprehensive Error Log failed" }],
       [parser |-> "selftest_log", res |->
            { "^SMART Self-test log",
              "^SMART Extended Self-test Log Version",
              "^Warning: device does not support Self Test Logging",
              "^Read SMART Self-test Log failed",
              "^SMART Self-test Log not supported" }],
       [parser |-> "ignored", res |->
            { "^SMART Extended Self-test Log \\(GP Log 0x07\\) not supported",
              "^SMART Extended Self-test Log size [0-9-]+ not supported",
              "^Read SMART Extended Self-test Log failed" }],
       [parser |-> "selective_selftest_log", res |->
            { "^SMART Selective self-test log data structure",
              "^Device does not support Selective Self Tests\\/Logging",
              "^Selective Self-tests\\/Logging not supported",
              "^Read SMART Selective Self-test Log failed" }],
       [parser |-> "scttemp_log", res |->
            { "^SCT Status Version",
              "^SCT Commands not supported",
              "^SCT Data Table command not supported",
              "^Error unknown SCT Temperature History Format Version",
              "^Another SCT command is executing, abort Read Data Table",
              "^Warning: device does not support SCT Commands" }],
       [parser |-> "scterc_log", res |->
            { "^SCT Error Recovery Control",
              "^SCT Error Recovery Control command not supported",
              "^SCT \\(Get\\) Error Recovery Control command failed",
              "^Another SCT command is executing, abort Error Recovery Control",
              "^Warning: device does not support SCT \\(Get\\) Error Recovery Control" }],
       [parser |-> "devstat", res |->
            { "^Device Statistics \\([^)]+\\)$",
              "^Device Statistics \\([^)]+\\) not supported",
              "^Read Device Statistics page (?:.+) failed" }],
       [parser |-> "ignored", res |->
            { "^Device Statistics \\([^)]+\\) supported pages" }],
       [parser |-> "sataphy", res |->
            { "^SATA Phy Event Counters",
              "^SATA Phy Event Counters \\(GP Log 0x11\\) not supported",
              "^SATA Phy Event Counters with [0-9-]+ sectors not supported",
              "^Read SATA Phy Event Counters failed" }] >>

\* The parser the first matching row names; "unknown" when no row matches.
ClassifySubsection(sub) ==
    LET rows == { k \in 1..Len(SubsectionTable) :
                    \E re \in SubsectionTable[k].res : Match(re, sub) }
    IN  IF rows = {} THEN "unknown" ELSE SubsectionTable[Min(rows)].parser

ParseSubsection(parser, sub) ==
    CASE parser = "health" -> parse_section_data_subsection_health(sub)
      [] parser = "capabilities" -> parse_section_data_subsection_capabilities(sub)
      [] parser = "attributes" -> parse_section_data_subsection_attributes(sub)
      [] parser = "directory_log" -> parse_section_data_subsection_directory_log(sub)
      [] parser = "error_log" -> parse_section_data_subsection_error_log(sub)
      [] parser = "selftest_log" -> parse_section_data_subsection_selftest_log(sub)
      [] parser = "selective_selftest_log" ->
            parse_section_data_subsection_selective_selftest_log(sub)
      [] parser = "scttemp_log" -> parse_section_data_subsection_scttemp_log(sub)
      [] parser = "scterc_log" -> parse_section_data_subsection_scterc_log(sub)
      [] parser = "devstat" -> parse_section_data_subsection_devstat(sub)
      [] parser = "sataphy" -> parse_section_data_subsection_sataphy(sub)

\* One iteration of the subsection loop: st holds the local 'status', the
\* properties appended so far and the record of the subsections met.
DataSubsection(st, sub0) ==
    LET sub == string_trim_copy(sub0)
        Classified(parser, r) ==
            IF sub = <<>> THEN st
            ELSE IF parser = "unknown"
            THEN [st EXCEPT !.subs = Append(@, [parser |-> parser, result |-> "UnknownSection",
                                                sub |-> sub, props |-> <<>>])]
            ELSE IF parser = "ignored"
            THEN [st EXCEPT !.status = FALSE,
                            !.subs = Append(@, [parser |-> parser, result |-> "ignored",
                                                sub |-> sub, props |-> <<>>])]
            ELSE [st EXCEPT !.status = (r.result = "ok") \/ st.status,
                            !.props = @ \o r.props,
                            !.subs = Append(@, [parser |-> parser, result |-> r.result,
                                                sub |-> sub, props |-> r.props])]
    IN  Classified(ClassifySubsection(sub), ParseSubsection(ClassifySubsection(sub), sub))

\* Variant: the subsections are parsed from the last to the first.
RECURSIVE DataSubsectionsLastFirst(_, _)
DataSubsectionsLastFirst(st, subsections) ==
    IF subsections = <<>> THEN st
    ELSE DataSubsection(DataSubsectionsLastFirst(st, Tail(subsections)), Head(subsections))

\* Variant: the loop ends at the first subsection whose parser returns
\* DataError or that no row of the table classifies.
RECURSIVE DataSubsectionsUntilError(_, _)
DataSubsectionsUntilError(st, subsections) ==
    IF subsections = <<>> THEN st
    ELSE IF st.subs # <<>> /\ st.subs[Len(st.subs)].result \in { "DataError", "UnknownSection" }
    THEN st
    ELSE DataSubsectionsUntilError(DataSubsection(st, Head(subsections)), Tail(subsections))

\* The subsection loop of parse_section_data.
RECURSIVE DataSubsections(_, _)
DataSubsections(st, subsections) ==
    IF subsections = <<>> THEN st
    ELSE DataSubsections(DataSubsection(st, Head(subsections)), Tail(subsections))

\* Variant: the return value follows the accumulator 'status'.
DataSectionResultComputed(status) == IF status THEN "ok" ELSE "NoSubsectionsParsed"

\* The value parse_section_data returns once the loop is over.
DataSectionResult(status) == "NoSubsectionsParsed"

\* parse_section_data(body): the result, the properties it appends, the
\* final 'status' and the record of the subsections.
parse_section_data(body) ==
    LET Finished(end) ==
            [result |-> DataSectionResult(end.status), props |-> end.props,
             status |-> end.status, subs |-> end.subs]
    IN  Finished(DataSubsections([status |-> FALSE, props |-> <<>>, subs |-> <<>>],
                                 MergeSubsections(SplitSubsections(body))))

\* --------------------------------------------------------------- sections

\* The header tests of parse_section, in the order of the source.
SectionTable ==
    << [re |-> ReSectionInfo, handler |-> "info"],
       [re |-> ReSectionData, handler |-> "data"],
       [re |-> ReSectionData, handler |-> "nothing"],
       [re |-> ReSectionEnable, handler |-> "nothing"],
       [re |-> ReSectionSelftest, handler |-> "nothing"] >>

\* The rows whose expression the header matches.
SectionRows(header) == { k \in 1..Len(SectionTable) : SectionTable[k].re \in Re(header) }

\* The handler parse_section runs for the header: that of the first row that
\* matches, "unknown" when none does.
SectionHandler(header) ==
    IF SectionRows(header) = {} THEN "unknown"
    ELSE SectionTable[Min(SectionRows(header))].handler

\* parse_section(header, body): the result, the properties appended, the two
\* cache fields as they are left and the record of the data subsections.
parse_section(header, body, info, data) ==
    LET handler == SectionHandler(header)
        Info(ri) ==
            [result |-> ri.result, props |-> ri.props, info |-> body, data |-> data,
             subs |-> <<>>, status |-> FALSE]
        Data(rd) ==
            [result |-> rd.result, props |-> rd.props, info |-> info, data |-> body,
             subs |-> rd.subs, status |-> rd.status]
    IN  CASE handler = "info" -> Info(parse_section_info(body))
          [] handler = "data" -> Data(parse_section_data(body))
          [] handler = "nothing" ->
                [result |-> "ok", props |-> <<>>, info |-> info, data |-> data,
                 subs |-> <<>>, status |-> FALSE]
          [] OTHER ->
                [result |-> "UnknownSection", props |-> <<>>, info |-> info, data |-> data,
                 subs |-> <<>>, status |-> FALSE]

\* ------------------------------------------------------------------ parse

VARIABLES
    input,              \* smartctl_output, the argument of parse()
    pc,                 \* where parse() stands: "fix", "version", "sections", "done"
    s,                  \* the local s: the text being parsed
    properties,         \* the property accumulator (add_property appends)
    data_section_info_, \* cache field: the body of the Info section
    data_section_data_, \* cache field: the body of the Data section
    section_start_pos,  \* the local of the section loop (a line index, 0: npos)
    status,             \* the local 'status' of the section loop
    result,             \* what parse() returned ("running" before it returns)
    calls               \* record of the parse_section calls made so far

VARIABLES
    level_,             \* hz::ErrorBase::level_, as the integer of the enumerator
    level_calls,        \* record of the level_inc / level_dec calls made so far
    domain_map,         \* the domain map of the debug state: domain -> level -> stream
    debug_out_call      \* record of the last debug_out call

\* The state of the library objects.
lib_vars == << level_, level_calls, domain_map, debug_out_call >>

\* The state of the parser.
parser_vars == << input, pc, s, properties, data_section_info_, data_section_data_,
                  section_start_pos, status, result, calls >>

vars == << input, pc, s, properties, data_section_info_, data_section_data_,
           section_start_pos, status, result, calls,
           level_, level_calls, domain_map, debug_out_call >>

\* No error object is touched and no debug stream is asked for.
NoDebugOutCall == [level |-> "", domain |-> "", kind |-> "none", stream |-> <<>>]

LibIdle ==
    /\ level_ = 0
    /\ level_calls = <<>>
    /\ domain_map = <<>>
    /\ debug_out_call = NoDebugOutCall

npos == 0

\* The texts of at most n lines of the alphabet.
Texts(n) == UNION { [1..k -> BodyLines] : k \in 0..n }

Inputs == { p \o b : p \in Prologues, b \in Texts(MaxLines) }

\* The input texts that begin with the supported version line and the
\* lines of head, and go on with at most n of the given lines.
InputsAfter(head, lines, n) ==
    { <<VersionLineNew>> \o head \o b : b \in UNION { [1..k -> lines] : k \in 0..n } }

\* A fresh parser that is handed one of the texts.
Start(texts) ==
    /\ input \in texts
    /\ pc = "fix"
    /\ s = <<>>
    /\ properties = <<>>
    /\ data_section_info_ = <<>>
    /\ data_section_data_ = <<>>
    /\ section_start_pos = 1
    /\ status = FALSE
    /\ result = "running"
    /\ calls = <<>>
    /\ LibIdle

Init == Start(Inputs)

\* parse() of a text made for the rewrites, or of a text that begins with
\* an Information section.
InitInfo ==
    Start(InputsAfter(<<>>, FixLines, MaxFixLines)
          \cup InputsAfter(<<BannerInfo>>, InfoLines, MaxInfoLines))

\* parse() of a text that begins with a Read SMART Data section.
InitData ==
    Start(InputsAfter(<<BannerData>>, DataLines, MaxDataLines)
          \cup InputsAfter(<<BannerData>>, TwoSectionLines, MaxTwoSectionLines)
          \cup InputsAfter(<<BannerData, CapabilitiesHeader>>, CapabilityLines,
                           MaxCapabilityLines)
          \cup InputsAfter(<<BannerData>> \o AttributesHead, AttributeLines,
                           MaxAttributeLines))

\* parse() of a text that begins with a Read SMART Data section made of
\* lines of the logs.
InitLog == Start(InputsAfter(<<BannerData>>, LogLines, MaxLogLines))

\* parse() of a text whose data section is one attributes subsection that
\* holds header rows and table rows of the three formats.
InitFormat ==
    Start(InputsAfter(<<BannerData, AttributesHead[1]>>, FormatLines, MaxFormatLines))

\* parse() of the empty text, of a text without version line, and of the
\* texts of at most MaxLoopLines section headers and other lines.
InitLoop ==
    Start({ <<>>, <<ModelLine>> } \cup InputsAfter(<<>>, LoopLines, MaxLoopLines))

\* s.find("=== START", pos): the first line from pos on that holds the
\* banner token.
FindBanner(t, pos) ==
    LET idx == { i \in 1..Len(t) : i >= pos /\ BannerOf(t[i]) # "" }
    IN  IF pos = npos \/ idx = {} THEN npos ELSE Min(idx)

\* Variant: the next section is searched from the header itself.
SectionEndAtBanner(t, b) == FindBanner(t, b)

\* section_end_pos: the start of the section after the one whose header is
\* line b, searched from the end of the header line.
SectionEnd(t, b) == IF b = Len(t) THEN npos ELSE FindBanner(t, b + 1)

\* section_body_str: the text between the header line and the next section,
\* trimmed; empty when nothing follows the header.
SectionBody(t, b) ==
    IF b = Len(t) THEN <<>>
    ELSE string_trim_copy(SubSeq(t, b + 1,
            IF SectionEnd(t, b) = npos THEN Len(t) ELSE SectionEnd(t, b) - 1))

\* Variant: the result of the last section alone decides.
SectionStatusLast(r, st) == r = "ok"

\* status = parse_section(...).has_value() || status
SectionStatus(r, st) == (r = "ok") \/ st

\* Variant: the version properties are emitted for a supported version only.
VersionPropertiesIfSupported(v) ==
    IF ~check_format_supported(v.version) THEN <<>>
    ELSE << WithStringValue([set_name(StorageProperty, "smartctl/version/_merged",
                                      "Smartctl Version", "")
                                EXCEPT !.reported_value = <<v.version>>, !.section = "Info"]),
            WithStringValue([set_name(StorageProperty, "smartctl/version/_merged_full",
                                      "Smartctl Version", "")
                                EXCEPT !.reported_value = <<v.version_full>>, !.section = "Info"]) >>

\* The two version properties.
VersionProperties(v) ==
    << WithStringValue([set_name(StorageProperty, "smartctl/version/_merged",
                                 "Smartctl Version", "")
                           EXCEPT !.reported_value = <<v.version>>, !.section = "Info"]),
       WithStringValue([set_name(StorageProperty, "smartctl/version/_merged_full",
                                 "Smartctl Version", "")
                           EXCEPT !.reported_value = <<v.version_full>>, !.section = "Info"]) >>

\* Variant: the property holds the fixed text instead of the argument.
OutputPropertyOfFixed(smartctl_output, t) ==
    [WithStringValue([set_name(StorageProperty, "smartctl/output", "Smartctl Text Output", "")
                         EXCEPT !.reported_value = t])
        EXCEPT !.show_in_ui = FALSE]

\* The property that holds the full text output.
OutputProperty(smartctl_output, t) ==
    [WithStringValue([set_name(StorageProperty, "smartctl/output", "Smartctl Text Output", "")
                         EXCEPT !.reported_value = smartctl_output])
        EXCEPT !.show_in_ui = FALSE]

\* Variant: the argument is taken as it is, untrimmed.
TrimmedInputUntrimmed(smartctl_output) == smartctl_output

\* std::string s = hz::string_trim_copy(hz::string_any_to_unix_copy(smartctl_output))
TrimmedInput(smartctl_output) == string_trim_copy(smartctl_output)

\* What the version extraction and the compatibility check decide: the
\* error parse() returns with, or "continue".
VersionOutcome(v) ==
    IF ~v.found THEN "NoVersion"
    ELSE IF ~check_format_supported(v.version) THEN "IncompatibleVersion"
    ELSE "continue"

\* Variant: the error of the failed sections is passed on.
FinalResultSectionError(st) == IF ~st THEN "UnknownSection" ELSE "ok"

\* Variant: the wrong fatal kind is returned.
FinalResultNoVersion(st) == IF ~st THEN "NoVersion" ELSE "ok"

\* What parse() returns after the section loop.
FinalResult(st) == IF ~st THEN "NoSection" ELSE "ok"

Return(r) == /\ result' = r
             /\ pc' = "done"

\* The trim, the empty-input check and the rewrites that fix the output.
ParseFixOutput ==
    /\ pc = "fix"
    /\ LET t == TrimmedInput(input)
       IN  IF t = <<>>
           THEN /\ Return("EmptyInput")
                /\ UNCHANGED << s, properties >>
           ELSE /\ properties' = properties \o ChecksumProperties(t)
                /\ s' = FixOutput(t)
                /\ pc' = "version"
                /\ UNCHANGED result
    /\ UNCHANGED << input, data_section_info_, data_section_data_,
                    section_start_pos, status, calls >>
    /\ UNCHANGED lib_vars

\* The version extraction, the compatibility check and the full text output
\* property.
ParseVersion ==
    /\ pc = "version"
    /\ LET v == parse_version_text(s)
       IN  IF VersionOutcome(v) = "NoVersion"
           THEN /\ Return("NoVersion")
                /\ UNCHANGED properties
           ELSE IF VersionOutcome(v) = "IncompatibleVersion"
           THEN /\ Return("IncompatibleVersion")
                /\ properties' = properties \o VersionProperties(v)
           ELSE /\ properties' = properties \o VersionProperties(v)
                                            \o << OutputProperty(input, s) >>
                /\ pc' = "sections"
                /\ UNCHANGED result
    /\ UNCHANGED << input, s, data_section_info_, data_section_data_,
                    section_start_pos, status, calls >>
    /\ UNCHANGED lib_vars

\* One iteration of the section loop: the next banner is found, its header
\* and body are cut out and handed to parse_section.
ParseSection ==
    /\ pc = "sections"
    /\ FindBanner(s, section_start_pos) # npos
    /\ LET b == FindBanner(s, section_start_pos)
           section_header == BannerOf(s[b])
           section_body_str == SectionBody(s, b)
           Dispatched(r) ==
               /\ properties' = properties \o r.props
               /\ data_section_info_' = r.info
               /\ data_section_data_' = r.data
               /\ status' = SectionStatus(r.result, status)
               /\ section_start_pos' = SectionEnd(s, b)
               /\ calls' = Append(calls,
                      [header |-> section_header, body |-> section_body_str, line |-> b,
                       result |-> r.result, first |-> Len(properties) + 1,
                       last |-> Len(properties) + Len(r.props),
                       caches_kept |-> (r.info = data_section_info_
                                        /\ r.data = data_section_data_),
                       subs |-> r.subs, status |-> r.status])
       IN  Dispatched(parse_section(section_header, section_body_str,
                                    data_section_info_, data_section_data_))
    /\ UNCHANGED << input, pc, s, result >>
    /\ UNCHANGED lib_vars

\* The end of the section loop and the return of parse().
ParseReturn ==
    /\ pc = "sections"
    /\ FindBanner(s, section_start_pos) = npos
    /\ Return(FinalResult(status))
    /\ UNCHANGED << input, s, properties, data_section_info_, data_section_data_,
                    section_start_pos, status, calls >>
    /\ UNCHANGED lib_vars

Next == ParseFixOutput \/ ParseVersion \/ ParseSection \/ ParseReturn

Spec == Init /\ [][Next]_vars

SpecInfo == InitInfo /\ [][Next]_vars

SpecData == InitData /\ [][Next]_vars
SpecLog == InitLog /\ [][Next]_vars
SpecFormat == InitFormat /\ [][Next]_vars

\* parse() is one sequential function call: a step that can be taken is
\* taken.  This is weak fairness of Next, (WF_vars(Next)), written out with
\* the guards of the four actions in the place of ENABLED <<Next>>_vars:
\* one of them can be taken exactly as long as parse() has not returned.
Fairness == []<>(pc = "done") \/ []<><<Next>>_vars

SpecFair == InitLoop /\ [][Next]_vars /\ Fairness

\* ------------------------------------------------------------ hz::ErrorBase

\* enum class ErrorLevel
None == 0
Dump == 1
Info == 2
Warn == 4
Error == 8
Fatal == 16

ErrorLevels == { None, Dump, Info, Warn, Error, Fatal }

\* static_cast<int>(level) << 1: the levels are at most 16, far from the
\* width of int.
ShiftLeft(n) == n * 2

\* static_cast<int>(level) >> 1
ShiftRight(n) == n \div 2

\* No parse() is running.
ParserIdle ==
    /\ input = <<>>
    /\ pc = "done"
    /\ s = <<>>
    /\ properties = <<>>
    /\ data_section_info_ = <<>>
    /\ data_section_data_ = <<>>
    /\ section_start_pos = npos
    /\ status = FALSE
    /\ result = "running"
    /\ calls = <<>>

\* An ErrorBase constructed with one of the six levels.
InitError ==
    /\ ParserIdle
    /\ level_ \in ErrorLevels
    /\ level_calls = <<>>
    /\ domain_map = <<>>
    /\ debug_out_call = NoDebugOutCall

\* The call is recorded with the level before it and the level returned.
LevelCalled(op, returned) ==
    /\ Len(level_calls) < MaxLevelCalls
    /\ level_calls' = Append(level_calls,
                             [op |-> op, before |-> level_, returned |-> returned])
    /\ UNCHANGED << domain_map, debug_out_call >>
    /\ UNCHANGED parser_vars

\* ErrorBase::level_inc()
level_inc ==
    /\ IF level_ = Fatal
       THEN /\ LevelCalled("level_inc", level_)
            /\ UNCHANGED level_
       ELSE /\ level_' = ShiftLeft(level_)
            /\ LevelCalled("level_inc", ShiftLeft(level_))

\* ErrorBase::level_dec()
level_dec ==
    /\ IF level_ = None
       THEN /\ LevelCalled("level_dec", level_)
            /\ UNCHANGED level_
       ELSE /\ level_' = ShiftRight(level_)
            /\ LevelCalled("level_dec", ShiftRight(level_))

NextError == level_inc \/ level_dec

SpecError == InitError /\ [][NextError]_vars

\* ---------------------------------------------------------------- debug_out

\* debug_level::flag
DebugLevels == { "dump", "info", "warn", "error", "fatal" }

\* The domains asked for or registered.
DebugDomains == { "default", "app" }

\* The past-the-end iterator of a map.
End == "end"

\* map.find(key): the key of the entry, or end().
Find(map, key) == IF key \in DOMAIN map THEN key ELSE End

\* The level maps a domain may be registered with: a stream for some of
\* the levels.
LevelMaps(domain) ==
    { [l \in L |-> <<domain, l>>] : L \in SUBSET DebugLevels }

\* The domain maps: some of the domains are registered.
DomainMaps ==
    UNION { { [d \in D |-> m[d]] :
                m \in [D -> UNION { LevelMaps(d) : d \in D }] } : D \in SUBSET DebugDomains }

\* A domain map whose domains hold streams made for them.
WellFormed(dm) == \A d \in DOMAIN dm : dm[d] \in LevelMaps(d)

\* *(os->second) with os == end(): undefined behaviour.  The call may
\* crash, or return a reference made of whatever lies behind the map.
Undefined(level, domain) ==
    { [level |-> level, domain |-> domain, kind |-> "crash", stream |-> <<>>],
      [level |-> level, domain |-> domain, kind |-> "return", stream |-> <<"garbage">>] }

\* debug_out(level, domain): the ways the call can end.
debug_out(level, domain, dm) ==
    LET level_map == Find(dm, domain)
    IN  IF level_map = End
        THEN { [level |-> level, domain |-> domain, kind |-> "throw",
                stream |-> <<"no domain">>] }
        ELSE LET os == Find(dm[level_map], level)
             IN  IF level_map = End
                 THEN { [level |-> level, domain |-> domain, kind |-> "throw",
                         stream |-> <<"no level">>] }
                 ELSE IF os = End
                 THEN Undefined(level, domain)
                 ELSE { [level |-> level, domain |-> domain, kind |-> "return",
                         stream |-> dm[level_map][os]] }

\* A debug state with some domains registered, each with streams for some
\* levels.
InitDebug ==
    /\ ParserIdle
    /\ level_ = 0
    /\ level_calls = <<>>
    /\ domain_map \in { dm \in DomainMaps : WellFormed(dm) }
    /\ debug_out_call = NoDebugOutCall

\* A call of debug_out.
DebugOut ==
    /\ \E level \in DebugLevels, domain \in DebugDomains :
          debug_out_call' \in debug_out(level, domain, domain_map)
    /\ UNCHANGED << level_, level_calls, domain_map >>
    /\ UNCHANGED parser_vars

NextDebug == DebugOut

SpecDebug == InitDebug /\ [][NextDebug]_vars

\* ----------------------------------------------------------------- claims

Returned == pc = "done"

\* The positions of the properties of the given generic name.
Named(gen) == { i \in 1..Len(properties) : properties[i].generic_name = gen }

\* The parse_section calls that ran the data-section parser.
DataCalls == { k \in 1..Len(calls) : SectionHandler(calls[k].header) = "data" }

\* The subsections of a call that a subsection parser parsed successfully.
ParsedSubsections(k) ==
    { i \in 1..Len(calls[k].subs) : calls[k].subs[i].result = "ok" }

\* C1: once the fatal preconditions pass, an input whose only banner section
\* is a Read SMART Data section with at least one subsection that was
\* classified and parsed successfully makes parse() return success, not
\* NoSection.
C1_DataSectionSucceeds ==
    ( /\ Returned
      /\ Len(calls) = 1
      /\ DataCalls = {1}
      /\ ParsedSubsections(1) # {} )
    => result = "ok"

\* C2: parse_section_data returns NoSubsectionsParsed for every body,
\* whatever the number of subsections that were classified or parsed
\* successfully and whatever its accumulator 'status' holds.
C2_DataSectionAlwaysFails ==
    \A k \in DataCalls : calls[k].result = "NoSubsectionsParsed"

C2_Witness ==
    \E k \in DataCalls :
        /\ calls[k].status
        /\ ParsedSubsections(k) # {}
        /\ calls[k].result = "NoSubsectionsParsed"

\* C3: parse() returns success or one of the four fatal kinds EmptyInput,
\* NoVersion, IncompatibleVersion, NoSection; the UnknownSection,
\* NoSubsectionsParsed, DataError or InternalError of a section or subsection
\* parser is never what parse() returns.
C3_OnlyFatalKinds ==
    /\ result \in { "running", "ok", "EmptyInput", "NoVersion",
                    "IncompatibleVersion", "NoSection" }
    /\ Returned => result # "running"

C3_Witness ==
    /\ Returned
    /\ \E k \in 1..Len(calls) : calls[k].result = "UnknownSection"
    /\ \E k \in 1..Len(calls) :
          /\ calls[k].result = "NoSubsectionsParsed"
          /\ \E i \in 1..Len(calls[k].subs) : calls[k].subs[i].result = "DataError"
    /\ result = "NoSection"

\* C4: for an input that is empty or holds nothing but blank lines parse()
\* returns EmptyInput, appends no property and dispatches no section.
Blank(t) == \A i \in 1..Len(t) : t[i] = ""

C4_EmptyInput ==
    Blank(input) =>
        /\ pc \in { "fix", "done" }
        /\ Returned => result = "EmptyInput"
        /\ properties = <<>>
        /\ calls = <<>>

C4_Witness ==
    /\ Returned
    /\ Len(input) >= 2
    /\ Blank(input)
    /\ result = "EmptyInput"

\* The accumulator holds exactly one 'smartctl/output' property, hidden, whose
\* reported value is the argument of parse().
OutputRetained ==
    /\ Cardinality(Named("smartctl/output")) = 1
    /\ \A i \in Named("smartctl/output") :
          /\ ~properties[i].show_in_ui
          /\ properties[i].reported_value = input

\* C5: after every parse() call on a fresh parser, whatever it returns, the
\* accumulator holds exactly one hidden 'smartctl/output' property whose
\* reported value is the raw input text as passed in.
C5_OutputAlwaysRetained == Returned => OutputRetained

\* C5, amended: the property is there after every parse() call that returns
\* success or NoSection; after EmptyInput, NoVersion or IncompatibleVersion
\* the accumulator holds no 'smartctl/output' property.
C5_OutputRetainedPastPreconditions ==
    Returned =>
        IF result \in { "ok", "NoSection" } THEN OutputRetained
        ELSE Named("smartctl/output") = {}

C5_Witness ==
    /\ Returned
    /\ result = "ok"
    /\ s # input
    /\ TrimmedInput(input) # input
    /\ OutputRetained

\* The positions of the short and of the full version property: section
\* Info, string value the version the text reports.
VersionPositions(gen, version) ==
    { i \in Named(gen) :
        /\ properties[i].section = "Info"
        /\ properties[i].value = ValueString(<<version>>)
        /\ properties[i].reported_value = <<version>> }

\* C6: whenever version extraction succeeds the two version properties are in
\* the accumulator when parse() returns (IncompatibleVersion and NoSection
\* included), and both precede 'smartctl/output' and every property appended
\* by a section or subsection parser.
C6_VersionPropertiesFirst ==
    (Returned /\ parse_version_text(s).found) =>
        LET v == parse_version_text(s)
        IN  \E i \in VersionPositions("smartctl/version/_merged", v.version) :
            \E j \in VersionPositions("smartctl/version/_merged_full", v.version_full) :
                /\ \A k \in Named("smartctl/output") : i < k /\ j < k
                /\ \A c \in 1..Len(calls) : i < calls[c].first /\ j < calls[c].first

C6_Witness ==
    /\ Returned
    /\ parse_version_text(s).found
    /\ result = "IncompatibleVersion"
    /\ VersionPositions("smartctl/version/_merged", "4.0") # {}
    /\ \E i \in 1..Len(input) : BannerOf(input[i]) # ""

ChecksumNames ==
    { "_text_only/attribute_data_checksum_error",
      "_text_only/attribute_thresholds_checksum_error",
      "_text_only/ata_error_log_checksum_error",
      "_text_only/selftest_log_checksum_error" }

\* C7: when parse() returns EmptyInput, NoVersion or IncompatibleVersion,
\* parse_section was never called, the two cache fields are as constructed
\* and the accumulator holds nothing a section or subsection parser appended
\* (what it holds comes from the checksum extraction and the version).
C7_NoSectionWorkOnFatalPrecondition ==
    (Returned /\ result \in { "EmptyInput", "NoVersion", "IncompatibleVersion" }) =>
        /\ calls = <<>>
        /\ data_section_info_ = <<>>
        /\ data_section_data_ = <<>>
        /\ \A i \in 1..Len(properties) :
              properties[i].generic_name \in
                  ChecksumNames \cup { "smartctl/version/_merged",
                                       "smartctl/version/_merged_full" }

C7_Witness ==
    /\ Returned
    /\ result \in { "NoVersion", "IncompatibleVersion" }
    /\ \E i \in 1..(Len(input) - 1) :
          input[i] = BannerInfo /\ input[i+1] = CapacityLine

\* The lines of the text that start a section, and the k-th of them.
BannerLines(t) == { i \in 1..Len(t) : BannerOf(t[i]) # "" }
BannerLine(t, k) ==
    CHOOSE i \in BannerLines(t) : Cardinality({ j \in BannerLines(t) : j <= i }) = k

\* The text between the k-th banner line and the one after it.
Between(t, k) ==
    LET from == BannerLine(t, k)
        later == { j \in BannerLines(t) : j > from }
        to == IF later = {} THEN Len(t) ELSE Min(later) - 1
    IN  SubSeq(t, from + 1, to)

\* C8: parse() dispatches every banner-delimited section exactly once, in
\* source order, whatever the earlier sections returned: a section with an
\* unknown header yields UnknownSection and appends no property, it does not
\* stop the dispatch of the sections after it and does not cancel the
\* success of a section before it.
C8_EverySectionDispatched ==
    (Returned /\ result \in { "ok", "NoSection" }) =>
        /\ Len(calls) = Cardinality(BannerLines(s))
        /\ \A k \in 1..Len(calls) :
              /\ calls[k].line = BannerLine(s, k)
              /\ calls[k].header = BannerOf(s[BannerLine(s, k)])
              /\ calls[k].body = string_trim_copy(Between(s, k))
              /\ SectionRows(calls[k].header) = {} =>
                    /\ calls[k].result = "UnknownSection"
                    /\ calls[k].last = calls[k].first - 1
        /\ (\E k \in 1..Len(calls) : calls[k].result = "ok") <=> result = "ok"

C8_Witness ==
    /\ Returned
    /\ result = "ok"
    /\ Len(calls) >= 3
    /\ calls[1].result = "ok"
    /\ calls[2].result = "UnknownSection"
    /\ calls[3].result # "ok"

\* C9: besides Information and Read SMART Data, parse_section has three
\* known-but-content-free section kinds: a header that one of its three
\* content-free tests accepts gives success, appends no property and leaves
\* the two cache fields as they are.
ContentFreeRows == { k \in 1..Len(SectionTable) : SectionTable[k].handler = "nothing" }

C9_ThreeContentFreeKinds ==
    /\ Cardinality(ContentFreeRows) = 3
    /\ \A k \in 1..Len(calls) :
          SectionRows(calls[k].header) \cap ContentFreeRows # {} =>
              /\ calls[k].result = "ok"
              /\ calls[k].last = calls[k].first - 1
              /\ calls[k].caches_kept

\* C10: every property appended to the accumulator has its value set.
C10_EveryValueSet == \A i \in 1..Len(properties) : ~empty(properties[i])

\* The logical subsections of a data-section body that are not empty, in
\* the order of the text.
LogicalSubsections(body) ==
    LET NonEmpty(sub) == sub # <<>>
        merged == MergeSubsections(SplitSubsections(body))
    IN  SelectSeq([i \in 1..Len(merged) |-> string_trim_copy(merged[i])], NonEmpty)

\* The properties of the subsection records, one record after the other.
RECURSIVE SubsectionProperties(_)
SubsectionProperties(subs) ==
    IF subs = <<>> THEN <<>>
    ELSE Head(subs).props \o SubsectionProperties(Tail(subs))

\* The properties call k appended, as they stand in the accumulator.
CallProperties(k) == SubSeq(properties, calls[k].first, calls[k].last)

\* The calls follow the text, the properties of a call stand where the call
\* appended them and after those of the call before it, and the properties
\* of a data section are those of its subsections in the order of the text.
PropertiesInTextOrder ==
    \A k \in 1..Len(calls) :
        /\ calls[k].last <= Len(properties)
        /\ CallProperties(k)
             = parse_section(calls[k].header, calls[k].body, <<>>, <<>>).props
        /\ k > 1 => /\ calls[k-1].line < calls[k].line
                    /\ calls[k].first = calls[k-1].last + 1
        /\ k \in DataCalls =>
              /\ [i \in 1..Len(calls[k].subs) |-> calls[k].subs[i].sub]
                   = LogicalSubsections(calls[k].body)
              /\ CallProperties(k) = SubsectionProperties(calls[k].subs)

\* C11: during parse() the accumulator only grows at its end: every step
\* leaves the properties it found as a prefix of the properties it leaves,
\* and the properties of a section or subsection that stands earlier in the
\* text precede those of one that stands later.
C11_AppendOnlyInTextOrder ==
    /\ [][ /\ Len(properties) <= Len(properties')
           /\ SubSeq(properties', 1, Len(properties)) = properties ]_vars
    /\ []PropertiesInTextOrder

C11_Witness ==
    /\ Returned
    /\ Len(calls) = 2
    /\ \E i, j \in 1..Len(calls[1].subs) :
          /\ i < j
          /\ calls[1].subs[i].props # <<>>
          /\ calls[1].subs[j].props # <<>>
          /\ calls[1].subs[i].props # calls[1].subs[j].props
    /\ calls[2].first <= calls[2].last
    /\ calls[2].last = Len(properties)

\* C12: the input normalization of parse() (the trim and the rewrites that
\* follow it) is idempotent: applied to the text it produced, it leaves that
\* text as it is.
C12_NormalizationIdempotent ==
    (pc # "fix" /\ s # <<>>) => FixOutput(TrimmedInput(s)) = s

\* The parse_section calls that ran the Info-section parser.
InfoCalls == { k \in 1..Len(calls) : SectionHandler(calls[k].header) = "info" }

\* The names the classifier table of parse_section_info_property knows.
TableNames ==
    { InfoStringNames[i][1] : i \in 1..Len(InfoStringNames) }
    \cup { "User Capacity", "Rotation Rate", "Device is", "SMART support is" }
    \cup ScsiModeNames

\* Line i of the body belongs to a warning: a warning line stands before it
\* and no blank line stands between the two.
InWarning(body, i) ==
    \E j \in 1..(i - 1) :
        /\ ReInfoWarning \in Re(body[j])
        /\ \A m \in (j + 1)..(i - 1) : body[m] # ""

\* The 'name: value' lines outside warnings that are no noise lines.
PairLines(body) ==
    { i \in 1..Len(body) :
        /\ body[i] # ""
        /\ ~InWarning(body, i)
        /\ ReInfoWarning \notin Re(body[i])
        /\ Re(body[i]) \cap ReInfoNoise = {}
        /\ ReInfoLine \in Re(body[i]) }

\* Those of them whose name the classifier table does not know.
UnknownNameLines(body) == { i \in PairLines(body) : LineName(body[i]) \notin TableNames }

\* The members of a set of positions, in increasing order.
Ascending(S, n) ==
    LET Member(i) == i \in S
    IN  SelectSeq([i \in 1..n |-> i], Member)

\* The properties of call k whose reported name the table does not know,
\* warnings aside.
UnknownNameProperties(k) ==
    LET Unknown(p) == /\ p.reported_name \notin TableNames
                      /\ p.generic_name # "_text_only/info_warning"
    IN  SelectSeq(CallProperties(k), Unknown)

\* C13: every 'name: value' line of an Info section that stands outside a
\* warning, is no noise line and whose name the classifier table does not
\* know is appended as one property whose generic and reported names are the
\* name and whose value is the string value; none of these lines is dropped.
C13_UnknownNamesRetained ==
    \A k \in InfoCalls :
        LET body == calls[k].body
            lines == Ascending(UnknownNameLines(body), Len(body))
            props == UnknownNameProperties(k)
        IN  /\ Len(props) = Len(lines)
            /\ \A n \in 1..Len(lines) :
                  /\ props[n].generic_name = LineName(body[lines[n]])
                  /\ props[n].reported_name = LineName(body[lines[n]])
                  /\ props[n].value = ValueString(<<LineValue(body[lines[n]])>>)

C13_Witness ==
    /\ Returned
    /\ \E k \in InfoCalls :
          /\ UnknownNameLines(calls[k].body) # {}
          /\ UnknownNameProperties(k) # <<>>
          /\ \E i \in 1..Len(calls[k].body) :
                /\ calls[k].body[i] = UnknownInfoLine
                /\ InWarning(calls[k].body, i)

\* The subsection records of the data-section calls: call and position.
SubsectionRecords ==
    UNION { { <<k, i>> : i \in 1..Len(calls[k].subs) } : k \in DataCalls }

\* The records of the health parser for a subsection that opens with a
\* line 'SMART overall-health self-assessment test result: V'.
HealthRecords ==
    { r \in SubsectionRecords :
        /\ calls[r[1]].subs[r[2]].parser = "health"
        /\ ReHealthName \in Re(calls[r[1]].subs[r[2]].sub[1]) }

\* C14: for a health subsection 'SMART overall-health self-assessment test
\* result: V' the health parser appends one property of the OverallHealth
\* section; its value is the boolean true and its readable value 'PASSED'
\* when V is 'PASSED', the boolean false and 'FAILED' for every other V.
C14_HealthPassedExactly ==
    \A r \in HealthRecords :
        LET rec == calls[r[1]].subs[r[2]]
            V == LineValue(rec.sub[1])
        IN  /\ Len(rec.props) = 1
            /\ rec.props[1].section = "OverallHealth"
            /\ rec.props[1].value = ValueBool(V = "PASSED")
            /\ rec.props[1].readable_value = (IF V = "PASSED" THEN "PASSED" ELSE "FAILED")

C14_Witness ==
    /\ Returned
    /\ \E r1, r2 \in HealthRecords :
          /\ calls[r1[1]].subs[r1[2]].props[1].value = ValueBool(TRUE)
          /\ calls[r2[1]].subs[r2[2]].props[1].value = ValueBool(FALSE)
          /\ calls[r2[1]].subs[r2[2]].props[1].reported_value = <<"FAILED!">>

\* The records of the capabilities parser.
CapabilityRecords ==
    { r \in SubsectionRecords : calls[r[1]].subs[r[2]].parser = "capabilities" }

\* The blocks 'name: (N) minutes.' and 'name: (N) seconds.' of a
\* capabilities subsection, in the order of the text.
DurationBlocks(sub) ==
    LET blocks == CapabilityBlocks(sub)
        Timed(block) == /\ CapabilityCaptures(block).matched
                        /\ CapabilityCaptures(block).strvalue \in { "minutes.", "seconds." }
    IN  SelectSeq(blocks, Timed)

\* The duration properties among the given ones.
DurationProperties(props) ==
    LET Timed(p) == p.value.type = "seconds"
    IN  SelectSeq(props, Timed)

\* C15: a capabilities block 'name: (N) minutes.' is appended as a duration
\* property of N * 60 seconds and a block 'name: (N) seconds.' as one of N
\* seconds; when the flattened name is 'Short self-test routine recommended
\* polling time' the generic name is that of the short self-test polling
\* time, and its '( 2) minutes.' gives 120 seconds.
C15_DurationsInSeconds ==
    \A r \in CapabilityRecords :
        LET rec == calls[r[1]].subs[r[2]]
            blocks == DurationBlocks(rec.sub)
            props == DurationProperties(rec.props)
        IN  /\ Len(props) = Len(blocks)
            /\ \A n \in 1..Len(blocks) :
                  LET c == CapabilityCaptures(blocks[n])
                  IN  /\ props[n].reported_name = c.name
                      /\ c.strvalue = "minutes." => props[n].value = ValueSeconds(c.numvalue * 60)
                      /\ c.strvalue = "seconds." => props[n].value = ValueSeconds(c.numvalue)
                      /\ c.name = "Short self-test routine recommended polling time" =>
                            /\ props[n].generic_name
                                 = "ata_smart_data/self_test/polling_minutes/short"
                            /\ props[n].value = ValueSeconds(120)

C15_Witness ==
    /\ Returned
    /\ \E r \in CapabilityRecords :
          LET props == DurationProperties(calls[r[1]].subs[r[2]].props)
          IN  /\ Len(props) = 2
              /\ \E n \in 1..2 :
                    /\ props[n].generic_name = "ata_smart_data/self_test/polling_minutes/short"
                    /\ props[n].value.num = 120
              /\ \E n \in 1..2 :
                    /\ props[n].generic_name
                         = "ata_smart_data/offline_data_collection/completion_seconds"
                    /\ props[n].value.num = 45

AttributeRecords ==
    { r \in SubsectionRecords : calls[r[1]].subs[r[2]].parser = "attributes" }

\* The table rows of an attributes subsection that stand below the header
\* row of the brief format, in the order of the text.
BriefRows(sub) ==
    LET headers == { i \in 1..Len(sub) : sub[i] = AttributesHead[3] }
        rows == { i \in 1..Len(sub) : /\ sub[i] \in { Row194, Row5, Row9 }
                                       /\ \E h \in headers : h < i }
        InRows(i) == i \in rows
        Picked(at) == [n \in 1..Len(at) |-> sub[at[n]]]
    IN  Picked(SelectSeq([i \in 1..Len(sub) |-> i], InRows))

\* The attribute properties among the given ones.
AttributeProperties(props) ==
    LET IsAttribute(p) == p.value.type = "attribute"
    IN  SelectSeq(props, IsAttribute)

\* The fields the three rows stand for: -1 is an absent number.
RowFields(row) ==
    CASE row = Row194 ->
            [name |-> "Temperature_Celsius", id |-> 194, value |-> 222, worst |-> 222,
             threshold |-> 0, when_failed |-> "None", raw_value |-> "27 (Min/Max 12/48)",
             attr_type |-> "OldAge"]
      [] row = Row5 ->
            [name |-> "Reallocated_Sector_Ct", id |-> 5, value |-> 100, worst |-> 100,
             threshold |-> -1, when_failed |-> "Past", raw_value |-> "0",
             attr_type |-> "Prefail"]
      [] row = Row9 ->
            [name |-> "Power_On_Hours", id |-> 9, value |-> -1, worst |-> -1,
             threshold |-> 99, when_failed |-> "Now", raw_value |-> "1720",
             attr_type |-> "OldAge"]

\* C16: in the brief format every table row yields one attribute record, in
\* the order of the rows, with the id, value, worst and threshold of the row
\* (each of the three absent for a dash placeholder or a number outside
\* 0..255), failure time None for '-', Past for 'Past', Now for 'NOW', the
\* trimmed raw value, and class Prefail if the flags hold 'P' and OldAge
\* otherwise; the row of id 194 gives 222, 222, 0, None, OldAge.
C16_BriefRowRecord ==
    \A r \in AttributeRecords :
        LET rec == calls[r[1]].subs[r[2]]
            rows == BriefRows(rec.sub)
            props == AttributeProperties(rec.props)
        IN  /\ Len(props) = Len(rows)
            /\ \A n \in 1..Len(rows) :
                  LET want == RowFields(rows[n])
                      attr == props[n].value.data
                  IN  /\ props[n].reported_name = want.name
                      /\ attr.id = want.id
                      /\ attr.value = want.value
                      /\ attr.worst = want.worst
                      /\ attr.threshold = want.threshold
                      /\ attr.when_failed = want.when_failed
                      /\ attr.raw_value = want.raw_value
                      /\ attr.attr_type = want.attr_type

C16_Witness ==
    /\ Returned
    /\ \E r \in AttributeRecords :
          LET props == AttributeProperties(calls[r[1]].subs[r[2]].props)
          IN  /\ Len(props) = 3
              /\ \E n \in 1..3 : /\ props[n].value.data.id = 194
                                  /\ props[n].value.data.attr_type = "OldAge"
              /\ \E n \in 1..3 : /\ props[n].value.data.attr_type = "Prefail"
                                  /\ props[n].value.data.threshold = -1
                                  /\ props[n].value.data.when_failed = "Past"
              /\ \E n \in 1..3 : /\ props[n].value.data.value = -1
                                  /\ props[n].value.data.when_failed = "Now"

\* The lines of the body that open a warning.
WarningStarts(body) ==
    { i \in 1..Len(body) : ReInfoWarning \in Re(body[i]) /\ ~InWarning(body, i) }

\* The text of the warning line i opens: its capture and the lines below it
\* up to the next blank line or the end of the body.
WarningLinesFrom(body, i) ==
    LET blanks == { j \in (i + 1)..Len(body) : body[j] = "" }
        last == IF blanks = {} THEN Len(body) ELSE Min(blanks) - 1
    IN  <<WarningText(body[i])>> \o SubSeq(body, i + 1, last)

\* The warning properties of call k.
WarningProperties(k) ==
    LET IsWarning(p) == p.generic_name = "_text_only/info_warning"
    IN  SelectSeq(CallProperties(k), IsWarning)

\* C17: every '==> WARNING: ' line of an Info section met outside a warning
\* results in exactly one '_text_only/info_warning' property whose value is
\* the warning text followed by the non-blank lines below it, wherever the
\* warning stands in the body.
C17_EveryWarningEmitted ==
    \A k \in InfoCalls :
        LET body == calls[k].body
            starts == Ascending(WarningStarts(body), Len(body))
            props == WarningProperties(k)
        IN  /\ Len(props) = Len(starts)
            /\ \A n \in 1..Len(starts) :
                  props[n].value = ValueString(WarningLinesFrom(body, starts[n]))

\* The raw blocks of a data-section body: its runs of non-blank lines.
RawBlocks(body) ==
    LET first == { i \in 1..Len(body) : body[i] # "" /\ (i = 1 \/ body[i-1] = "") }
        Block(i) ==
            LET rest == { j \in i..Len(body) : body[j] = "" }
            IN  SubSeq(body, i, IF rest = {} THEN Len(body) ELSE Min(rest) - 1)
        Blocks(at) == [n \in 1..Len(at) |-> Block(at[n])]
    IN  Blocks(Ascending(first, Len(body)))

\* A raw block that continues the logical subsection before it.
ContinuationBlock(block) == Re(block[1]) \cap ReContinuation # {}

\* The blocks from..to joined with "\n\n".
RECURSIVE JoinedBlocks(_, _, _)
JoinedBlocks(blocks, from, to) ==
    IF from > to THEN <<>>
    ELSE IF from = to THEN blocks[from]
    ELSE blocks[from] \o <<"">> \o JoinedBlocks(blocks, from + 1, to)

\* The logical subsections the blocks stand for: every block that is no
\* continuation, joined with the continuation blocks that follow it.
GroupedBlocks(blocks) ==
    LET Opens(i) == ~ContinuationBlock(blocks[i])
        Last(i) == Max({ j \in i..Len(blocks) :
                            \A m \in (i + 1)..j : ContinuationBlock(blocks[m]) })
        Groups(at) == [n \in 1..Len(at) |-> JoinedBlocks(blocks, at[n], Last(at[n]))]
    IN  Groups(SelectSeq([i \in 1..Len(blocks) |-> i], Opens))

\* The text of the logical subsections call k met, in the order met.
SubsectionTexts(k) == [i \in 1..Len(calls[k].subs) |-> calls[k].subs[i].sub]

\* C18 (as stated): every raw block of a data section either opens a logical
\* subsection or, being a continuation, is appended with "\n\n" to the
\* logical subsection before it, and the text of every raw block ends up in
\* exactly one logical subsection, in the order of the text.
C18_EveryBlockInOneSubsection ==
    \A k \in DataCalls :
        LET blocks == RawBlocks(calls[k].body)
        IN  /\ SubsectionTexts(k) = GroupedBlocks(blocks)
            /\ blocks # <<>> => ~ContinuationBlock(blocks[1])

\* C18 (amended): every raw block that is no continuation opens a logical
\* subsection, and every continuation block that has a logical subsection
\* before it is appended to it with "\n\n"; the text of each of these
\* blocks ends up in exactly one logical subsection, in the order of the
\* text.  The continuation blocks that stand before the first logical
\* subsection are in none.
C18_BlocksGrouped ==
    \A k \in DataCalls : SubsectionTexts(k) = GroupedBlocks(RawBlocks(calls[k].body))

C18_Witness ==
    /\ Returned
    /\ \E k \in DataCalls :
          LET blocks == RawBlocks(calls[k].body)
          IN  /\ Len(blocks) = 2
              /\ blocks[2][1] = ErrorBlockLine
              /\ Len(calls[k].subs) = 1
              /\ calls[k].subs[1].sub = blocks[1] \o <<"">> \o blocks[2]

\* The eleven subsection parsers.
SubsectionParsers ==
    { "health", "capabilities", "attributes", "directory_log", "error_log", "selftest_log",
      "selective_selftest_log", "scttemp_log", "scterc_log", "devstat", "sataphy" }

\* C19: every non-empty logical subsection of a data section is classified
\* and handed to at most one subsection parser exactly once, in the order of
\* the text, whatever the subsections before it returned: after a DataError
\* or an unclassifiable subsection the later subsections are parsed all the
\* same, and the properties appended before stay in the accumulator.
C19_EverySubsectionDispatchedOnce ==
    \A k \in DataCalls :
        LET subs == calls[k].subs
        IN  /\ SubsectionTexts(k) = GroupedBlocks(RawBlocks(calls[k].body))
            /\ CallProperties(k) = SubsectionProperties(subs)
            /\ \A i \in 1..Len(subs) :
                  /\ subs[i].parser = ClassifySubsection(subs[i].sub)
                  /\ subs[i].parser \in SubsectionParsers =>
                        /\ subs[i].result = ParseSubsection(subs[i].parser, subs[i].sub).result
                        /\ subs[i].props = ParseSubsection(subs[i].parser, subs[i].sub).props
                  /\ subs[i].parser \notin SubsectionParsers =>
                        /\ subs[i].parser \in { "ignored", "unknown" }
                        /\ subs[i].props = <<>>

C19_Witness ==
    /\ Returned
    /\ \E k \in DataCalls :
          LET subs == calls[k].subs
          IN  /\ Len(subs) = 3
              /\ subs[1].result = "DataError" /\ subs[1].props # <<>>
              /\ subs[2].parser = "unknown"
              /\ subs[3].result = "ok" /\ subs[3].props # <<>>
              /\ CallProperties(k) = subs[1].props \o subs[3].props

\* The positions among the properties of those that hold the text verbatim
\* as reported value and as string value.
VerbatimProperties(props, sub) ==
    { n \in 1..Len(props) : /\ props[n].reported_value = sub
                             /\ props[n].value = ValueString(sub) }

\* C20: each of the eleven subsection parsers, every time it is invoked and
\* whatever it returns, appends one hidden property whose reported value
\* and string value are the text of the subsection verbatim.
C20_MergedPropertyEveryTime ==
    \A r \in SubsectionRecords :
        LET rec == calls[r[1]].subs[r[2]]
            merged == VerbatimProperties(rec.props, rec.sub)
        IN  rec.parser \in SubsectionParsers =>
                /\ Cardinality(merged) = 1
                /\ \A n \in merged : ~rec.props[n].show_in_ui

\* The generic name of the supported / present property of a subsection
\* parser; "" for a parser that has none.
PresentName(parser) ==
    CASE parser = "directory_log" -> "_text_only/directory_log_supported"
      [] parser = "error_log" -> "_text_only/ata_smart_error_log/_not_present"
      [] parser = "selftest_log" -> "ata_smart_self_test_log/_present"
      [] parser = "selective_selftest_log" ->
            "ata_smart_data/capabilities/selective_self_test_supported"
      [] parser = "scttemp_log" -> "_text_only/ata_sct_status/_not_present"
      [] parser = "scterc_log" -> "ata_sct_erc/_present"
      [] parser = "devstat" -> "ata_device_statistics/_present"
      [] parser = "sataphy" -> "sata_phy_event_counters/_present"
      [] OTHER -> ""

\* The not-supported phrasings among the expressions that select a parser
\* in parse_section_data.
NotSupportedPhrasings(parser) ==
    SubsectionTable[Min({ k \in 1..Len(SubsectionTable) :
                            SubsectionTable[k].parser = parser })].res
    \cap { "^General Purpose Log Directory not supported",
           "^Warning: device does not support Error Logging",
           "^SMART Error Log not supported",
           "^Warning: device does not support Self Test Logging",
           "^SMART Self-test Log not supported",
           "^Device does not support Selective Self Tests\\/Logging",
           "^Selective Self-tests\\/Logging not supported",
           "^SCT Commands not supported",
           "^SCT Data Table command not supported",
           "^Warning: device does not support SCT Commands",
           "^SCT Error Recovery Control command not supported",
           "^Warning: device does not support SCT \\(Get\\) Error Recovery Control",
           "^Device Statistics \\([^)]+\\) not supported",
           "^SATA Phy Event Counters \\(GP Log 0x11\\) not supported",
           "^SATA Phy Event Counters with [0-9-]+ sectors not supported" }

\* The subsection text carries a not-supported phrasing of its parser.
NotSupported(parser, sub) == \E re \in NotSupportedPhrasings(parser) : Match(re, sub)

\* C21: each subsection parser appends exactly one boolean supported /
\* present property per invocation, false exactly when the subsection text
\* carries one of the not-supported phrasings that select the parser (for
\* the SCT temperature parser: true exactly then); 'Device Statistics (GP
\* Log 0x04) not supported' yields 'ata_device_statistics/_present' = false.
C21_PresentFalseWhenNotSupported ==
    \A r \in SubsectionRecords :
        LET rec == calls[r[1]].subs[r[2]]
            flags == { n \in 1..Len(rec.props) :
                         rec.props[n].generic_name = PresentName(rec.parser) }
            Expected(unsupported) ==
                ValueBool(IF rec.parser = "scttemp_log" THEN unsupported ELSE ~unsupported)
        IN  rec.parser \in SubsectionParsers =>
                /\ Cardinality(flags) = 1
                /\ \A n \in flags :
                      rec.props[n].value = Expected(NotSupported(rec.parser, rec.sub))

SelftestRecords ==
    { r \in SubsectionRecords : calls[r[1]].subs[r[2]].parser = "selftest_log" }

\* The positions of the properties of the given generic name, and of those
\* whose value is a self-test entry.
PositionsNamed(props, name) == { n \in 1..Len(props) : props[n].generic_name = name }
EntryPositions(props) == { n \in 1..Len(props) : props[n].value.type = "selftest_entry" }

\* C22: every invocation of the self-test log parser appends exactly one
\* property 'ata_smart_self_test_log/extended/table/count', after all the
\* self-test entries of the subsection, whose integer value is the number of
\* self-test entries the invocation appended; it is 0 when no row matched,
\* also when the parser returns DataError.
C22_CountAfterEntries ==
    \A r \in SelftestRecords :
        LET props == calls[r[1]].subs[r[2]].props
            counts == PositionsNamed(props, "ata_smart_self_test_log/extended/table/count")
            entries == EntryPositions(props)
        IN  /\ Cardinality(counts) = 1
            /\ \A n \in counts :
                  /\ \A e \in entries : e < n
                  /\ props[n].value = ValueInteger(Cardinality(entries))

C22_Witness ==
    /\ Returned
    /\ \E r \in SelftestRecords :
          LET props == calls[r[1]].subs[r[2]].props
          IN  /\ calls[r[1]].subs[r[2]].result = "ok"
              /\ Cardinality(EntryPositions(props)) = 2
              /\ props[Len(props)].value = ValueInteger(2)

\* The format a header row stands for.
HeaderStyle(line) ==
    CASE line = AttributesHead[3] -> "FormatStyleBrief"
      [] line = HeaderNoUpdated -> "FormatStyleNoUpdated"
      [] line = HeaderOld -> "FormatStyleOld"

\* The format of the last of the given header rows above line i of the
\* subsection; the legacy format with the update column when there is none.
StyleAbove(sub, i, headers) ==
    LET above == { h \in 1..(i - 1) : sub[h] \in headers }
    IN  IF above = {} THEN "FormatStyleOld" ELSE HeaderStyle(sub[Max(above)])

\* The rows the grammar of each format accepts, with the update class and
\* the failure time the row then stands for.
GrammarRows ==
    { [line |-> Row194, style |-> "FormatStyleBrief", update_type |-> "Always",
       when_failed |-> "None"],
      [line |-> RowOld, style |-> "FormatStyleOld", update_type |-> "Always",
       when_failed |-> "None"],
      [line |-> RowOld, style |-> "FormatStyleNoUpdated", update_type |-> "Unknown",
       when_failed |-> "Unknown"],
      [line |-> RowNoUpdated, style |-> "FormatStyleNoUpdated", update_type |-> "Unknown",
       when_failed |-> "None"] }

\* The rows of the subsection that the grammar of the format in force
\* accepts, when the format in force is that of the last of the given
\* header rows: what each stands for, in the order of the text.
RowsRead(sub, headers) ==
    LET Read(i) == { g \in GrammarRows : /\ g.line = sub[i]
                                         /\ g.style = StyleAbove(sub, i, headers) }
        IsRead(i) == Read(i) # {}
        Picked(at) == [n \in 1..Len(at) |-> CHOOSE g \in Read(at[n]) : TRUE]
    IN  Picked(SelectSeq([i \in 1..Len(sub) |-> i], IsRead))

\* The attribute properties of the record are those of the given rows.
AttributesAre(props, rows) ==
    /\ Len(props) = Len(rows)
    /\ \A n \in 1..Len(rows) :
          /\ props[n].reported_value = <<rows[n].line>>
          /\ props[n].value.data.update_type = rows[n].update_type
          /\ props[n].value.data.when_failed = rows[n].when_failed
          /\ rows[n].style = "FormatStyleNoUpdated" =>
                props[n].value.data.update_type = "Unknown"

\* C23 (as stated): the format in force for a table row is that of the most
\* recent header row above it: brief without WHEN_FAILED, legacy without
\* update column with WHEN_FAILED and without UPDATED, legacy with update
\* column with both, which is also the format before any header row; each
\* row is matched against the grammar of that format only.
C23_FormatOfLastHeader ==
    \A r \in AttributeRecords :
        LET rec == calls[r[1]].subs[r[2]]
        IN  AttributesAre(AttributeProperties(rec.props),
                          RowsRead(rec.sub, { AttributesHead[3], HeaderNoUpdated, HeaderOld }))

\* C23 (amended): the format in force for a table row is that of the most
\* recent header row above it that lacks WHEN_FAILED (brief) or has
\* WHEN_FAILED and lacks UPDATED (legacy without update column), and the
\* legacy format with update column when there is no such header row: a
\* header row with both columns leaves the format as it is.  Table rows
\* never change the format, each row is matched against the grammar of the
\* format in force only, and in the legacy format without update column
\* the update class of every row is Unknown.
C23_FormatOfLastSelectingHeader ==
    \A r \in AttributeRecords :
        LET rec == calls[r[1]].subs[r[2]]
        IN  AttributesAre(AttributeProperties(rec.props),
                          RowsRead(rec.sub, { AttributesHead[3], HeaderNoUpdated }))

C23_Witness ==
    /\ Returned
    /\ \E r \in AttributeRecords :
          LET rec == calls[r[1]].subs[r[2]]
              props == AttributeProperties(rec.props)
          IN  /\ rec.sub = << AttributesHead[1], AttributesHead[3], Row194, HeaderNoUpdated,
                              RowNoUpdated >>
              /\ Len(props) = 2
              /\ props[1].value.data.update_type = "Always"
              /\ props[2].value.data.update_type = "Unknown"

\* The blocks of a capabilities subsection that the block expression
\* matches, in the order of the text.
MatchedBlocks(sub) ==
    LET Matched(block) == CapabilityCaptures(block).matched
    IN  SelectSeq(CapabilityBlocks(sub), Matched)

\* The properties made of the blocks, among the given ones: those that
\* report a value.
BlockProperties(props) ==
    LET Reports(p) == p.reported_value # <<>>
    IN  SelectSeq(props, Reports)

\* C24: InternalError is unreachable: parse_section_info returns success
\* for every body, the empty one included, as parse_section_info_property
\* meets Info properties only; and the two DataError guards of
\* parse_section_data_internal_capabilities are never taken, as it meets
\* only Capabilities properties that hold a duration or a capability: every
\* block the block expression matches is appended as such a property.
C24_InternalErrorUnreachable ==
    /\ result # "InternalError"
    /\ \A k \in InfoCalls :
          /\ calls[k].result = "ok"
          /\ \A n \in 1..Len(CallProperties(k)) : CallProperties(k)[n].section = "Info"
    /\ \A r \in CapabilityRecords :
          LET rec == calls[r[1]].subs[r[2]]
              blocks == MatchedBlocks(rec.sub)
              props == BlockProperties(rec.props)
          IN  /\ Len(props) = Len(blocks)
              /\ \A n \in 1..Len(blocks) :
                    /\ props[n].reported_name = CapabilityCaptures(blocks[n]).name
                    /\ props[n].section = "Capabilities"
                    /\ props[n].value.type \in { "seconds", "capability" }

C24_Witness ==
    /\ Returned
    /\ \E k \in InfoCalls : calls[k].body = <<>> /\ calls[k].result = "ok"
    /\ \E k \in InfoCalls : CallProperties(k) # <<>> /\ calls[k].result = "ok"
    /\ \E r \in CapabilityRecords :
          \E n \in 1..Len(calls[r[1]].subs[r[2]].props) :
              calls[r[1]].subs[r[2]].props[n].value.type = "capability"

\* The lines of the text that hold the banner token.
BannerLinesOf(t) == { i \in 1..Len(t) : BannerOf(t[i]) # "" }

\* C25: parse() terminates: it returns on every input; every iteration of
\* the section loop moves the search position for the banner token
\* strictly forward or to 'not found'; so every banner occurrence starts
\* at most one parse_section call and the calls are at most as many as the
\* banner occurrences.
C25_ParseTerminates ==
    /\ <>Returned
    /\ [][Len(calls') > Len(calls) =>
            \/ section_start_pos' = npos
            \/ section_start_pos' > section_start_pos]_vars
    /\ [](/\ Len(calls) <= Cardinality(BannerLinesOf(s))
          /\ \A k \in 1..Len(calls) : calls[k].line \in BannerLinesOf(s)
          /\ \A k, l \in 1..Len(calls) : k < l => calls[k].line < calls[l].line)

C25_Witness ==
    /\ Returned
    /\ Len(calls) = 3
    /\ Cardinality(BannerLinesOf(s)) = 3

\* C26: a parse() that fails with EmptyInput or NoVersion leaves the
\* property accumulator as it was before the call (empty, for the fresh
\* parser): no property is appended, none of the checksum warnings either.
C26_NothingAppendedOnEarlyFailure ==
    result \in { "EmptyInput", "NoVersion" } => properties = <<>>

\* The parsers of the opaque blocks.
OpaqueParsers == { "selective_selftest_log", "scterc_log", "sataphy" }

\* The values of the supported / present properties among the given ones.
PresentValues(parser, props) ==
    { props[n].value : n \in PositionsNamed(props, PresentName(parser)) }

\* C27: the parsers of the selective self-test log, the SCT ERC log and
\* the SATA Phy counters return success exactly when the supported /
\* present boolean they appended is true, and DataError exactly when it is
\* false.
C27_SuccessIffSupported ==
    \A r \in SubsectionRecords :
        LET rec == calls[r[1]].subs[r[2]]
        IN  rec.parser \in OpaqueParsers =>
                /\ rec.result \in { "ok", "DataError" }
                /\ rec.result = "ok" <=>
                        PresentValues(rec.parser, rec.props) = { ValueBool(TRUE) }
                /\ rec.result = "DataError" <=>
                        PresentValues(rec.parser, rec.props) = { ValueBool(FALSE) }

\* The same rule for the SCT ERC log and the SATA Phy counters alone.
C27_SuccessIffSupportedErcPhy ==
    \A r \in SubsectionRecords :
        LET rec == calls[r[1]].subs[r[2]]
        IN  rec.parser \in { "scterc_log", "sataphy" } =>
                /\ rec.result = "ok" <=>
                        PresentValues(rec.parser, rec.props) = { ValueBool(TRUE) }
                /\ rec.result = "DataError" <=>
                        PresentValues(rec.parser, rec.props) = { ValueBool(FALSE) }

\* The version number a version line of the error log shows.
VersionNumberShown(line) ==
    CASE line = ErrorLogVersionLine -> "1"
      [] line = XerrorLogVersionLine -> "1"
      [] OTHER -> ""

\* C28: for an error-log subsection with a version line 'SMART Error Log
\* Version: N' or 'SMART Extended Comprehensive Error Log Version: N (...)'
\* the property 'ata_smart_error_log/extended/revision' has the reported
\* value N and the integer value N.
C28_RevisionIsVersionNumber ==
    \A r \in SubsectionRecords :
        LET rec == calls[r[1]].subs[r[2]]
            iv == FirstMatch(ReErrorLogVersion, rec.sub)
        IN  (rec.parser = "error_log" /\ iv # 0) =>
                \E n \in PositionsNamed(rec.props, "ata_smart_error_log/extended/revision") :
                    /\ rec.props[n].reported_value = << VersionNumberShown(rec.sub[iv]) >>
                    /\ rec.props[n].value =
                          ValueInteger(NumericOf(VersionNumberShown(rec.sub[iv])))

\* The level of the next higher severity, and of the next lower one.
Higher(level) ==
    CASE level = None -> Dump
      [] level = Dump -> Info
      [] level = Info -> Warn
      [] level = Warn -> Error
      [] level = Error -> Fatal
      [] OTHER -> level

Lower(level) ==
    CASE level = Fatal -> Error
      [] level = Error -> Warn
      [] level = Warn -> Info
      [] level = Info -> Dump
      [] level = Dump -> None
      [] OTHER -> level

\* C29: after any sequence of level_inc() and level_dec() calls the level
\* is one of the six ErrorLevel values; level_inc() at Fatal and
\* level_dec() at None leave it unchanged; from every other level
\* level_inc() moves to the next higher severity and level_dec() to the
\* next lower one.
C29_LevelStepsThroughSeverities ==
    /\ level_ \in ErrorLevels
    /\ \A k \in 1..Len(level_calls) :
          LET call == level_calls[k]
          IN  call.returned =
                 IF call.op = "level_inc" THEN Higher(call.before) ELSE Lower(call.before)

\* What holds of the calls: the level stays among the six values,
\* level_dec() moves to the next lower severity and stays at None, and
\* level_inc() moves to the next higher severity from every level but None,
\* where it stays.
C29_LevelStepsButFromNone ==
    /\ level_ \in ErrorLevels
    /\ \A k \in 1..Len(level_calls) :
          LET call == level_calls[k]
          IN  call.returned =
                 IF call.op = "level_dec" THEN Lower(call.before)
                 ELSE IF call.before = None THEN None
                 ELSE Higher(call.before)

\* C30: debug_out(level, domain) throws debug_internal_error when the
\* domain is not registered, and when the domain is registered but has no
\* stream for the level; it returns a stream only when both lookups
\* succeed, and never dereferences a missing entry.
C30_ThrowsOnMissingEntry ==
    LET call == debug_out_call
        registered == call.domain \in DOMAIN domain_map
        present == registered /\ call.level \in DOMAIN domain_map[call.domain]
    IN  call.kind # "none" =>
            /\ ~present => call.kind = "throw"
            /\ present => /\ call.kind = "return"
                          /\ call.stream = domain_map[call.domain][call.level]

\* What holds of the calls: an unregistered domain throws, and a stream
\* that is there is returned.
C30_ThrowsOnMissingDomain ==
    LET call == debug_out_call
        registered == call.domain \in DOMAIN domain_map
        present == registered /\ call.level \in DOMAIN domain_map[call.domain]
    IN  call.kind # "none" =>
            /\ ~registered => call.kind = "throw"
            /\ present => /\ call.kind = "return"
                          /\ call.stream = domain_map[call.domain][call.level]

====
